---- MODULE Spec2Model ----
(***************************************************************************)
(* Model of src/services/keywordService.ts: the resilient multi-proxy      *)
(* fetcher (fetchWithTimeout, fetchWithProxies), the fan-out of            *)
(* fetchRelatedKeywords, the JSON extractor (extractJsonFromText) and the  *)
(* exported AI operations that use it; and of the page, the component App  *)
(* with its hook useSearch and its controls.  Each has its specification:  *)
(* Spec (SpecFair with the fairness of the timers), SpecRelated,           *)
(* SpecExtract, SpecAi, SpecApp.                                           *)
(*                                                                         *)
(* One fetchWithProxies call is a process whose steps are the stretches    *)
(* of code between two awaits.  The relays, the network and the timer are  *)
(* the environment: they choose how each await settles.                    *)
(*                                                                         *)
(* Texts (relay bodies, payloads) are drawn from a small set of strings;   *)
(* error messages are sequences of words, and String.prototype.includes    *)
(* is membership of a word in the message.                                 *)
(***************************************************************************)
EXTENDS Integers, Sequences, FiniteSets, TLC

VARIABLES
    pc,             \* position of the call: idle, fetching, parsing, delay, returned, raised
    responseParser, \* the interpreter passed by the caller
    proxyIdx,       \* index in PROXIES of the strategy of the outer loop
    attempt,        \* the inner loop's counter
    lastKnownError, \* the variable of that name
    timer,          \* the timeout timer of fetchWithTimeout: unset, pending, fired, cleared
    outcome,        \* what the call returned or threw
    \* history of the call, written but never read by the code
    requests,       \* the relay requests issued so far, <<strategy, attempt>> each
    last,           \* the last attempt that ended, and how
    endKinds,       \* the kinds of ending the attempts of the call have had
    interpCount,    \* how many times the interpreter was applied
    waited,         \* the retry delay elapsed between the last ended attempt and the current one
    \* one fetchRelatedKeywords call
    relatedPc,      \* idle, waiting, returned, raised
    keyword,        \* its arguments
    source,
    settlements,    \* per sub-fetch started: pending, fulfilled with a value, rejected with a reason
    completion,     \* history: the sub-fetches in the order they settled
    relatedOutcome, \* what the call returned or threw
    \* one extractJsonFromText call
    exPc,           \* called, done
    exText,         \* its argument, text
    extraction,     \* what it computed, and what it returned or threw
    \* one call of an exported AI operation that uses the extractor
    aiPc,           \* idle, calling, returned, raised
    aiOp,           \* the operation
    aiText,         \* response.text of the answer of the AI service, if it answered with a text
    aiCause,        \* history: where the failure came from, and the error caught
    aiOutcome,      \* what the call returned or threw
    \* the page: the component App with its hook useSearch and its controls
    app,            \* the state of App and of useSearch, one field per useState
    isModalOpen,    \* the state of PromptLauncher
    inFlight,       \* the service calls awaited by the handlers of App, not yet settled
    issued,         \* history: how many service calls the handlers have made
    queued,         \* the state updates made out of an event handler, waiting for a render
    effectPending,  \* React has rendered App and not yet called the effect of that render
    root            \* how the page is mounted, and how React renders the updates

fetchVars == <<pc, responseParser, proxyIdx, attempt, lastKnownError, timer, outcome,
               requests, last, endKinds, interpCount, waited>>

relatedVars == <<relatedPc, keyword, source, settlements, completion, relatedOutcome>>

exVars == <<exPc, exText, extraction>>

aiVars == <<aiPc, aiOp, aiText, aiCause, aiOutcome>>

appVars == <<app, isModalOpen, inFlight, issued, queued, effectPending, root>>

vars == <<fetchVars, relatedVars, exVars, aiVars, appVars>>

-----------------------------------------------------------------------------
(* Constants of the program *)

MAX_RETRIES_PER_PROXY == 2

\* parse: how parseResponse unwraps the relay's body
PROXIES ==
    << [name |-> "corsproxy.io",            parse |-> "text"],
       [name |-> "allorigins.win (JSON)",   parse |-> "json.contents"],
       [name |-> "thingproxy.freeboard.io", parse |-> "text"] >>

-----------------------------------------------------------------------------
(* Values: thrown values, JSON values, texts *)

Undefined == "<undefined>"

\* cls is the class of a thrown value; "string" is a thrown string, no Error
MkError(cls, message) == [cls |-> cls, message |-> message]

NoError == MkError("null", <<>>)

InstanceOfError(v) == v.cls \in {"Error", "TypeError", "SyntaxError", "DOMException"}

InstanceOfTypeError(v) == v.cls = "TypeError"

Includes(message, word) == \E i \in DOMAIN message : message[i] = word

Ok(v) == [ok |-> TRUE, value |-> v, thrown |-> NoError]

Throw(e) == [ok |-> FALSE, value |-> Undefined, thrown |-> e]

JsValue(type, contents) == [type |-> type, contents |-> contents]

NoValue == JsValue("none", Undefined)

\* the payloads a target can answer with
RawTexts == {"", "[1]", "<html>", "Timeout"}

Envelope(t) == "{contents:'" \o t \o "'}"

\* the bodies a relay can answer with
Bodies == RawTexts \cup {Envelope(t) : t \in RawTexts \ {"Timeout"}} \cup {"null"}

\* A body whose stream fails while it is read, named by what the engine then
\* rejects the read with: Chromium ("Failed to fetch"; "network error" in
\* earlier versions), Firefox, WebKit.
StreamError ==
    { "<stream error: Failed to fetch>", "<stream error: network error>",
      "<stream error: Error in input stream>", "<stream error: Load failed>" }

Statuses == {200, 404, 503}

ResponseOk(status) == status >= 200 /\ status <= 299

\* JSON.parse on the texts above; the SyntaxError of a current V8 quotes the text
JsonParse(t) ==
    CASE t = "[1]"  -> Ok(JsValue("array", Undefined))
      [] t = "null" -> Ok(JsValue("null", Undefined))
      [] t \in {Envelope(c) : c \in RawTexts} ->
            Ok(JsValue("object", CHOOSE c \in RawTexts : t = Envelope(c)))
      [] t = ""     -> Throw(MkError("SyntaxError", <<"Unexpected", "end", "of", "JSON", "input">>))
      [] OTHER      -> Throw(MkError("SyntaxError",
                             <<"Unexpected", "token", t, "is", "not", "valid", "JSON">>))

-----------------------------------------------------------------------------
(* PROXIES[i].parseResponse *)

InvalidStructureError ==
    MkError("Error", <<"allorigins.win:", "Invalid", "JSON", "response", "structure.">>)

\* what reading a broken body stream rejects with (response.text(),
\* response.json()): a TypeError with the message of the engine
StreamTypeError(body) ==
    MkError("TypeError",
            CASE body = "<stream error: Failed to fetch>" -> <<"Failed", "to", "fetch">>
              [] body = "<stream error: network error>" -> <<"network", "error">>
              [] body = "<stream error: Error in input stream>" ->
                    <<"Error", "in", "input", "stream">>
              [] body = "<stream error: Load failed>" -> <<"Load", "failed">>)

\* `data && data.contents`
HasContents(data) == data.type # "null" /\ data.contents \notin {Undefined, ""}

ParseResponse(proxy, body) ==
    IF body \in StreamError THEN Throw(StreamTypeError(body))
    ELSE IF proxy.parse = "text" THEN Ok(body)
    ELSE LET data == JsonParse(body) IN
         IF ~data.ok THEN Throw(data.thrown)
         ELSE IF HasContents(data.value) THEN Ok(data.value.contents)
         ELSE Throw(InvalidStructureError)

-----------------------------------------------------------------------------
(* The interpreters the callers pass: JSON.parse (fetchSingleTermKeywords) *)
(* and (text) => text (fetchNaverBlogPosts)                                *)

Parsers == {"JSON.parse", "identity"}

ApplyParser(parser, text) ==
    IF parser = "JSON.parse" THEN JsonParse(text) ELSE Ok(JsValue("string", text))

-----------------------------------------------------------------------------
(* fetchWithTimeout *)

\* what fetch rejects with when controller.abort('Timeout') aborts it: the abort
\* reason itself, a string; an engine without abort reasons rejects with its AbortError
AbortRejections ==
    { MkError("string", <<"Timeout">>),
      MkError("DOMException", <<"The", "user", "aborted", "a", "request.">>) }

\* What fetch rejects with when the relay cannot be reached: a TypeError, whose
\* message is the engine's own: that of Chromium, of Firefox, of WebKit.
NetworkRejections ==
    { MkError("TypeError", <<"Failed", "to", "fetch">>),
      MkError("TypeError", <<"NetworkError", "when", "attempting", "to", "fetch", "resource.">>),
      MkError("TypeError", <<"Load", "failed">>) }

-----------------------------------------------------------------------------
(* fetchWithProxies: the errors it builds *)

HttpError(status) == MkError("Error", <<"HTTP", "error", "status", ToString(status)>>)

EmptyContentError == MkError("Error", <<"proxy", "returned", "empty", "content">>)

UnknownRequestError == MkError("Error", <<"unknown", "request", "error">>)

TimeoutMessage == <<"request", "timed", "out">>

ConnectivityMessage == <<"network", "request", "failed", "check", "connection", "AdBlocker", "security">>

GenericMessage(text) == <<"all", "proxies", "failed", "last", "error">> \o text

CauselessMessage == <<"could", "not", "get", "data">>

\* the catch block's choice of what to record
Caught(thrown) == IF InstanceOfError(thrown) THEN thrown ELSE UnknownRequestError

\* the code after the loops: the error thrown for the last-known failure
FinalError(err) ==
    IF InstanceOfError(err)
    THEN IF Includes(err.message, "Timeout")
         THEN MkError("Error", TimeoutMessage)
         ELSE IF InstanceOfTypeError(err) /\ Includes(err.message, "fetch")
         THEN MkError("Error", ConnectivityMessage)
         ELSE MkError("Error", GenericMessage(
                  IF err.message = <<>> THEN <<"unknown", "error">> ELSE err.message))
    ELSE MkError("Error", CauselessMessage)

-----------------------------------------------------------------------------
(* fetchWithProxies: where the control goes after an attempt *)

\* mutant: the loop condition written `<` for `<=`
LoopNext_OffByOne(a) == IF a + 1 < MAX_RETRIES_PER_PROXY THEN "retry" ELSE "next"

\* the inner for's `attempt++` and `attempt <= MAX_RETRIES_PER_PROXY`
LoopNext(a) == IF a + 1 <= MAX_RETRIES_PER_PROXY THEN "retry" ELSE "next"

\* mutant: `continue` for `break`
OnNotOk_Continue(a) == LoopNext(a)

\* `if (!response.ok) { ...; break; }`
OnNotOk(a) == "next"

\* mutant: `break` for `continue`
OnEmpty_Break(a) == "next"

\* `if (!rawContent) { ...; continue; }`
OnEmpty(a) == LoopNext(a)

\* mutant: the catch block without its delay
OnCatch_NoDelay(a) == LoopNext(a)

\* the catch block: `if (attempt < MAX_RETRIES_PER_PROXY) await <delay>`, then the loop goes on
OnCatch(a) == IF a < MAX_RETRIES_PER_PROXY THEN "delay" ELSE LoopNext(a)

\* mutant: the result leaves the inner loop only (`break` for `return`)
OnInterpreted_BreakOnly(r, a) == IF r.ok THEN "next" ELSE OnCatch(a)

\* mutant: a throw of the interpreter abandons the strategy
OnInterpreted_Abandon(r, a) == IF r.ok THEN "return" ELSE "next"

\* `return responseParser(rawContent)` inside the try
OnInterpreted(r, a) == IF r.ok THEN "return" ELSE OnCatch(a)

\* mutant: only the first failure is recorded
Recorded_KeepFirst(prev, kind, detail) ==
    IF prev # NoError THEN prev
    ELSE CASE kind = "status" -> HttpError(detail.status)
           [] kind = "empty"  -> EmptyContentError
           [] kind \in {"timeout", "network", "unwrap", "interp"} -> Caught(detail.thrown)
           [] OTHER -> prev

\* mutant: a non-2xx status is not recorded
Recorded_SkipStatus(prev, kind, detail) ==
    CASE kind = "empty"  -> EmptyContentError
      [] kind \in {"timeout", "network", "unwrap", "interp"} -> Caught(detail.thrown)
      [] OTHER -> prev

\* what an attempt that ended leaves in lastKnownError
Recorded(prev, kind, detail) ==
    CASE kind = "status" -> HttpError(detail.status)
      [] kind = "empty"  -> EmptyContentError
      [] kind \in {"timeout", "network", "unwrap", "interp"} -> Caught(detail.thrown)
      [] OTHER -> prev

NoDetail == [status |-> 0, thrown |-> NoError, text |-> Undefined]

NoAttempt == [proxy |-> 0, attempt |-> 0, kind |-> "none", detail |-> NoDetail, applied |-> FALSE]

NoOutcome == [kind |-> "none", value |-> NoValue, error |-> NoError]

\* mutant: the attempt and the one after it are issued together
IssueRequest_Parallel(p, a) ==
    /\ pc' = "fetching"
    /\ proxyIdx' = p
    /\ attempt' = a
    /\ timer' = "pending"
    /\ requests' = requests \o << <<p, a>>, <<p, a + 1>> >>

\* mutant: the strategy list is walked from its end
IssueRequest_Reversed(p, a) ==
    /\ pc' = "fetching"
    /\ proxyIdx' = p
    /\ attempt' = a
    /\ timer' = "pending"
    /\ requests' = Append(requests, <<Len(PROXIES) + 1 - p, a>>)

\* fetchWithTimeout is entered: the timer is set and the request leaves
IssueRequest(p, a) ==
    /\ pc' = "fetching"
    /\ proxyIdx' = p
    /\ attempt' = a
    /\ timer' = "pending"
    /\ requests' = Append(requests, <<p, a>>)

\* the code runs from the end of an await to its next await, to its return or to its
\* throw. timerNow is the state of the last timer after fetchWithTimeout's finally
Continue(step, value, err, timerNow) ==
    CASE step = "return" ->
           /\ pc' = "returned"
           /\ outcome' = [kind |-> "value", value |-> value, error |-> NoError]
           /\ timer' = timerNow
           /\ UNCHANGED <<proxyIdx, attempt, requests>>
      [] step = "delay" ->
           /\ pc' = "delay"
           /\ timer' = timerNow
           /\ UNCHANGED <<proxyIdx, attempt, requests, outcome>>
      [] step = "retry" ->
           /\ IssueRequest(proxyIdx, attempt + 1)
           /\ UNCHANGED outcome
      [] OTHER ->
           IF proxyIdx < Len(PROXIES)
           THEN /\ IssueRequest(proxyIdx + 1, 1)
                /\ UNCHANGED outcome
           ELSE /\ pc' = "raised"
                /\ outcome' = [kind |-> "error", value |-> NoValue, error |-> FinalError(err)]
                /\ timer' = timerNow
                /\ UNCHANGED <<proxyIdx, attempt, requests>>

\* the attempt <<proxyIdx, attempt>> has ended as `kind`
EndAttempt(kind, detail, applied, step, value, timerNow) ==
    /\ last' = [proxy |-> proxyIdx, attempt |-> attempt, kind |-> kind,
                detail |-> detail, applied |-> applied]
    /\ endKinds' = endKinds \cup {kind}
    /\ interpCount' = IF applied THEN interpCount + 1 ELSE interpCount
    /\ lastKnownError' = Recorded(lastKnownError, kind, detail)
    /\ waited' = FALSE
    /\ UNCHANGED responseParser
    /\ Continue(step, value, Recorded(lastKnownError, kind, detail), timerNow)

-----------------------------------------------------------------------------
(* The steps of one call *)

FetchIdle ==
    /\ pc = "idle"
    /\ responseParser = "JSON.parse"
    /\ proxyIdx = 0
    /\ attempt = 0
    /\ lastKnownError = NoError
    /\ timer = "unset"
    /\ outcome = NoOutcome
    /\ requests = <<>>
    /\ last = NoAttempt
    /\ endKinds = {}
    /\ interpCount = 0
    /\ waited = FALSE

\* no fetchRelatedKeywords call
RelatedIdle ==
    /\ relatedPc = "idle"
    /\ keyword = <<>>
    /\ source = "naver"
    /\ settlements = <<>>
    /\ completion = <<>>
    /\ relatedOutcome = [kind |-> "none", list |-> <<>>, error |-> NoError]

\* no extractJsonFromText call
ExIdle ==
    /\ exPc = "done"
    /\ exText = <<>>
    /\ extraction = [searchText |-> <<>>, startIndex |-> -1, closed |-> FALSE,
                     endIndex |-> -1, candidate |-> <<>>, parsed |-> FALSE,
                     result |-> [ok |-> FALSE, value |-> <<>>, thrown |-> NoError]]

\* no AI operation is called
AiIdle ==
    /\ aiPc = "idle"
    /\ aiOp = "none"
    /\ aiText = <<>>
    /\ aiCause = [origin |-> "none", error |-> NoError]
    /\ aiOutcome = [ok |-> FALSE, thrown |-> NoError]

\* null, for the states that hold data or null, and an error message or null
Null == "null"

\* the empty list of results, []
NoResults == [length |-> 0, keys |-> {}, id |-> 0]

\* a strategy report that generateBlogStrategy or generateSerpStrategy made
\* from a main keyword and results
Report(k, r) == [null |-> FALSE, mainKeyword |-> k, results |-> r]

\* null, for blogStrategy and serpStrategy
NullReport == [null |-> TRUE, mainKeyword |-> <<>>, results |-> NoResults]

\* the initial values of the useState calls of useSearch and of App
AppStart ==
    [results |-> NoResults, loading |-> FALSE, error |-> Null, initialLoad |-> TRUE,
     source |-> "google", feature |-> "competition",
     keyword |-> <<>>, mainKeyword |-> <<>>,
     blogStrategy |-> NullReport, strategyLoading |-> FALSE, strategyError |-> Null,
     serpStrategy |-> NullReport, serpStrategyLoading |-> FALSE,
     serpStrategyError |-> Null,
     recommendedKeywords |-> Null, recoLoading |-> FALSE, recoError |-> Null,
     sustainableTopics |-> Null, sustainableTopicsLoading |-> FALSE,
     sustainableTopicsError |-> Null,
     promptResult |-> Null, promptResultLoading |-> FALSE, promptResultError |-> Null]

\* the page after its first render: the effect of App has run once and,
\* the feature being 'competition', has set to null what is null already
AppMounted ==
    /\ app = AppStart
    /\ isModalOpen = FALSE
    /\ inFlight = {}
    /\ issued = 0
    /\ queued = [f \in {} |-> Null]
    /\ effectPending = FALSE

\* the page where no specification but that of the page looks at it
AppIdle == AppMounted /\ root = "concurrent"

Init == FetchIdle /\ RelatedIdle /\ ExIdle /\ AiIdle /\ AppIdle

\* The call that mounts App and the version of React are not among the
\* sources.  ReactDOM.render gives a legacy root, where each update made
\* out of an event handler is rendered at once.  createRoot of
\* react-dom/client gives a concurrent root, where such updates wait for a
\* render that React makes in a later task: with React 18 a render for the
\* updates of an event handler leaves them waiting ("concurrent"), with
\* React 19 it takes them too ("unified").
Roots == {"concurrent", "unified", "legacy"}

\* the page mounted, one way or the other
InitApp == FetchIdle /\ RelatedIdle /\ ExIdle /\ AiIdle /\ AppMounted /\ root \in Roots

\* fetchWithProxies(targetUrl, responseParser) runs to its first await
Call ==
    /\ pc = "idle"
    /\ \E parser \in Parsers : responseParser' = parser
    /\ IssueRequest(1, 1)
    /\ UNCHANGED <<lastKnownError, outcome, last, endKinds, interpCount, waited>>
    /\ UNCHANGED <<relatedVars, exVars, aiVars, appVars>>

\* the timer of fetchWithTimeout fires first: controller.abort('Timeout'), fetch rejects
TimerFires ==
    /\ pc = "fetching"
    /\ timer = "pending"
    /\ \E thrown \in AbortRejections :
          EndAttempt("timeout", [NoDetail EXCEPT !.thrown = thrown], FALSE,
                     OnCatch(attempt), NoValue, "fired")
    /\ UNCHANGED <<relatedVars, exVars, aiVars, appVars>>

\* mutant: fetchWithTimeout has no finally, the timer is left to fire
FetchRejects_NoClear ==
    /\ pc = "fetching"
    /\ timer = "pending"
    /\ \E thrown \in NetworkRejections :
          EndAttempt("network", [NoDetail EXCEPT !.thrown = thrown], FALSE,
                     OnCatch(attempt), NoValue, "pending")
    /\ UNCHANGED <<relatedVars, exVars, aiVars, appVars>>

\* fetch rejects before the timer fires: the relay cannot be reached
FetchRejects ==
    /\ pc = "fetching"
    /\ timer = "pending"
    /\ \E thrown \in NetworkRejections :
          EndAttempt("network", [NoDetail EXCEPT !.thrown = thrown], FALSE,
                     OnCatch(attempt), NoValue, "cleared")
    /\ UNCHANGED <<relatedVars, exVars, aiVars, appVars>>

\* fetch resolves before the timer fires; `if (!response.ok)` is decided, and a
\* response that is ok goes to `await proxy.parseResponse(response)`
ResponseArrives ==
    /\ pc = "fetching"
    /\ timer = "pending"
    /\ \E status \in Statuses :
          IF ResponseOk(status)
          THEN /\ pc' = "parsing"
               /\ timer' = "cleared"
               /\ UNCHANGED <<responseParser, proxyIdx, attempt, lastKnownError, outcome,
                              requests, last, endKinds, interpCount, waited>>
          ELSE EndAttempt("status", [NoDetail EXCEPT !.status = status], FALSE,
                          OnNotOk(attempt), NoValue, "cleared")
    /\ UNCHANGED <<relatedVars, exVars, aiVars, appVars>>

\* parseResponse settles: it throws, or gives the raw content, which is empty or is
\* handed to the interpreter
ParseResponseSettles ==
    /\ pc = "parsing"
    /\ \E body \in Bodies \cup StreamError :
          LET raw == ParseResponse(PROXIES[proxyIdx], body) IN
          IF ~raw.ok
          THEN EndAttempt("unwrap", [NoDetail EXCEPT !.thrown = raw.thrown], FALSE,
                          OnCatch(attempt), NoValue, timer)
          ELSE IF raw.value = ""
          THEN EndAttempt("empty", NoDetail, FALSE, OnEmpty(attempt), NoValue, timer)
          ELSE LET r == ApplyParser(responseParser, raw.value) IN
               EndAttempt(IF r.ok THEN "accepted" ELSE "interp",
                          [NoDetail EXCEPT !.thrown = r.thrown, !.text = raw.value], TRUE,
                          OnInterpreted(r, attempt), r.value, timer)
    /\ UNCHANGED <<relatedVars, exVars, aiVars, appVars>>

\* the retry delay of the catch block is over: the inner loop goes on
DelayElapses ==
    /\ pc = "delay"
    /\ Continue(LoopNext(attempt), NoValue, lastKnownError, timer)
    /\ waited' = TRUE
    /\ UNCHANGED <<responseParser, lastKnownError, last, endKinds, interpCount>>
    /\ UNCHANGED <<relatedVars, exVars, aiVars, appVars>>

Next ==
    \/ Call
    \/ TimerFires
    \/ FetchRejects
    \/ ResponseArrives
    \/ ParseResponseSettles
    \/ DelayElapses

Spec == Init /\ [][Next]_vars

-----------------------------------------------------------------------------
(* Properties of fetchWithProxies *)

N == Len(PROXIES)

Done == pc \in {"returned", "raised"}

InAttempt == pc \in {"fetching", "parsing"}

LastRequest == requests[Len(requests)]

RequestsTo(p) == Cardinality({i \in DOMAIN requests : requests[i][1] = p})

ThrowKinds == {"timeout", "network", "unwrap"}

\* where the call is right after the attempt `last`, if the strategy is abandoned
MovedOn ==
    IF last.proxy < N
    THEN InAttempt /\ LastRequest = <<last.proxy + 1, 1>>
    ELSE pc = "raised" /\ LastRequest = <<last.proxy, last.attempt>>

\* C1: if the first attempt on strategy k obtains a payload the interpreter accepts
\* (every attempt on the strategies before k having failed), the call returns the
\* interpreter's result for that payload, strategy k has had one request and no
\* strategy after k has had any.
C1_FirstSuccessStops ==
    (last.kind = "accepted" /\ last.attempt = 1) =>
        /\ pc = "returned"
        /\ outcome.kind = "value"
        /\ outcome.value = (IF responseParser = "JSON.parse"
                             THEN JsonParse(last.detail.text).value
                             ELSE JsValue("string", last.detail.text))
        /\ RequestsTo(last.proxy) = 1
        /\ \A i \in DOMAIN requests : requests[i][1] <= last.proxy
        /\ \A p \in 1..(last.proxy - 1) : RequestsTo(p) >= 1

C1_Witness ==
    /\ pc = "returned"
    /\ last.kind = "accepted" /\ last.attempt = 1 /\ last.proxy = 2
    /\ RequestsTo(1) = 2

\* C2: if no attempt of the call ended in a non-2xx status and none obtained an
\* accepted payload, the finished call has raised, after exactly 2*N requests, 2 per
\* strategy; it has not returned.
C2_AllFailExactly2N ==
    (Done /\ "status" \notin endKinds /\ "accepted" \notin endKinds) =>
        /\ pc = "raised"
        /\ outcome.kind = "error"
        /\ Len(requests) = 2 * N
        /\ \A p \in 1..N : RequestsTo(p) = 2

C2_Witness ==
    /\ pc = "raised"
    /\ endKinds = {"network", "empty"}
    /\ Len(requests) = 6

\* C3, as claimed: the interpreter is applied to at most one payload, and once it
\* has been applied the call issues no further request.
C3_InterpreterAtMostOnce ==
    /\ interpCount <= 1
    /\ interpCount = 1 => Done

\* C3, amended: the interpreter is applied at most once per attempt; once it has
\* returned a value the call returns it and issues no further request; a throw of
\* the interpreter is a failed attempt: it is recorded, and the strategy is retried
\* after the delay or, on its last attempt, abandoned.
C3_InterpreterPerAttempt ==
    /\ interpCount <= Len(requests)
    /\ last.kind = "accepted" =>
          /\ pc = "returned"
          /\ last.applied
          /\ LastRequest = <<last.proxy, last.attempt>>
    /\ last.kind = "interp" =>
          /\ last.applied
          /\ lastKnownError = last.detail.thrown
          /\ IF last.attempt < MAX_RETRIES_PER_PROXY
             THEN \/ pc = "delay" /\ LastRequest = <<last.proxy, last.attempt>>
                  \/ InAttempt /\ waited /\ LastRequest = <<last.proxy, last.attempt + 1>>
             ELSE MovedOn

C3_Witness ==
    /\ pc = "returned"
    /\ interpCount = 3
    /\ "interp" \in endKinds

\* C4: if every attempt of the call ended by the timeout's abort, the error raised
\* is the timeout-class message.
C4_AllTimeoutsRaiseTimeoutClass ==
    (pc = "raised" /\ endKinds = {"timeout"}) =>
        outcome.error.message = TimeoutMessage

\* C5: if every attempt of the call ended by fetch's TypeError for an unreachable
\* relay, the error raised is the connectivity-class message, which is neither the
\* timeout-class message nor a generic message.
C5_AllConnectionFailuresRaiseConnectivity ==
    (pc = "raised" /\ endKinds = {"network"}) =>
        /\ outcome.error.message = ConnectivityMessage
        /\ outcome.error.message # TimeoutMessage
        /\ \A thrown \in NetworkRejections :
              outcome.error.message # GenericMessage(thrown.message)

\* the error the failure of the attempt `last` stands for
LastFailure ==
    CASE last.kind = "status" -> HttpError(last.detail.status)
      [] last.kind = "empty"  -> EmptyContentError
      [] OTHER -> IF last.detail.thrown.cls = "string"
                  THEN UnknownRequestError
                  ELSE last.detail.thrown

\* C6: the error raised on exhaustion is the one the failure of the last attempt
\* stands for, classified: the failures of earlier attempts change neither its
\* class nor its text.
C6_ClassFromLastAttempt ==
    pc = "raised" =>
        /\ lastKnownError = LastFailure
        /\ outcome.error.message =
              (IF Includes(LastFailure.message, "Timeout") THEN TimeoutMessage
               ELSE IF LastFailure.cls = "TypeError" /\ Includes(LastFailure.message, "fetch")
               THEN ConnectivityMessage
               ELSE GenericMessage(LastFailure.message))

C6_Witness ==
    /\ pc = "raised"
    /\ last.kind = "network"
    /\ {"status", "empty", "timeout"} \subseteq endKinds
    /\ outcome.error.message = ConnectivityMessage

\* C7: after an attempt answered with a non-2xx status, the strategy has no further
\* attempt, also when that attempt was its first, and the next strategy's first
\* attempt comes next (or the call raises, after the last strategy).
C7_Non2xxAbandonsStrategy ==
    last.kind = "status" =>
        /\ RequestsTo(last.proxy) = last.attempt
        /\ MovedOn

C7_Witness ==
    /\ last.kind = "status" /\ last.attempt = 1 /\ last.proxy = 1
    /\ pc = "parsing"
    /\ requests = << <<1, 1>>, <<2, 1>> >>

\* C8: after an attempt whose payload was empty, the interpreter was not applied,
\* the empty-content error is the last-known failure, and the same strategy is
\* attempted again if it has an attempt left; it is abandoned only with its 2
\* attempts used.
C8_EmptyPayloadRetries ==
    last.kind = "empty" =>
        /\ ~last.applied
        /\ lastKnownError = EmptyContentError
        /\ IF last.attempt < MAX_RETRIES_PER_PROXY
           THEN InAttempt /\ LastRequest = <<last.proxy, last.attempt + 1>>
           ELSE MovedOn /\ RequestsTo(last.proxy) = MAX_RETRIES_PER_PROXY

C8_Witness ==
    /\ last.kind = "empty" /\ last.attempt = 1 /\ last.proxy = 3
    /\ InAttempt
    /\ LastRequest = <<3, 2>>

\* C9: after an attempt that threw (timeout abort, network failure, failure to
\* unwrap), the error is the last-known failure (a thrown value that is no Error
\* is recorded as the unknown-request error); a first attempt is followed by the
\* retry delay and then the second attempt on the same strategy, a second attempt
\* by the next strategy.
C9_ThrowRetriesAfterDelay ==
    last.kind \in ThrowKinds =>
        /\ lastKnownError = LastFailure
        /\ IF last.attempt = 1
           THEN \/ pc = "delay" /\ LastRequest = <<last.proxy, 1>>
                \/ InAttempt /\ waited /\ LastRequest = <<last.proxy, 2>>
           ELSE MovedOn /\ ~waited

C9_Witness ==
    /\ last.kind = "unwrap" /\ last.attempt = 1 /\ last.proxy = 2
    /\ last.detail.thrown = InvalidStructureError
    /\ pc = "fetching" /\ waited
    /\ LastRequest = <<2, 2>>

\* C10: whenever the current attempt and the one before it are on the same
\* strategy, the retry delay has elapsed between them.
C10_DelayBeforeEveryRetry ==
    (InAttempt /\ Len(requests) >= 2 /\ requests[Len(requests) - 1][1] = LastRequest[1])
        => waited

\* C11: the strategies of the requests of a call never go back in the declared
\* order (corsproxy.io, allorigins.win, thingproxy): the first request is to the
\* first strategy, each request is to the strategy of the one before it or to the
\* next one in the list, and a strategy's attempts are numbered 1, 2 in a row.
C11_StrategiesInDeclaredOrder ==
    /\ requests # <<>> => requests[1] = <<1, 1>>
    /\ \A i \in DOMAIN requests : \A j \in DOMAIN requests :
          i < j => requests[i][1] <= requests[j][1]
    /\ \A i \in DOMAIN requests :
          i > 1 => \/ requests[i] = <<requests[i - 1][1], requests[i - 1][2] + 1>>
                   \/ requests[i] = <<requests[i - 1][1] + 1, 1>>
    /\ \A i \in DOMAIN requests :
          PROXIES[requests[i][1]].name =
              <<"corsproxy.io", "allorigins.win (JSON)", "thingproxy.freeboard.io">>[requests[i][1]]

C11_Witness ==
    /\ Len(requests) = 4
    /\ requests[2][1] = 1 /\ requests[3][1] = 2 /\ requests[4][1] = 3
    /\ pc = "parsing"

\* C12: a call that has raised has a recorded cause, so the error raised is never
\* the cause-less one; and a call that has returned has obtained a payload that is
\* not empty.
C12_ExhaustionHasCause ==
    /\ pc = "raised" =>
          /\ lastKnownError # NoError
          /\ lastKnownError.cls \in {"Error", "TypeError", "SyntaxError", "DOMException"}
          /\ outcome.kind = "error"
          /\ outcome.error.message # CauselessMessage
    /\ pc = "returned" =>
          /\ outcome.kind = "value"
          /\ last.kind = "accepted"
          /\ last.detail.text \notin {"", Undefined}

C12_Witness ==
    /\ pc = "raised"
    /\ endKinds = {"status"}
    /\ Len(requests) = 3

-----------------------------------------------------------------------------
(* fetchRelatedKeywords                                                    *)
(*                                                                         *)
(* A keyword is a sequence of characters. A sub-fetch                      *)
(* (fetchSingleTermKeywords) is an await of the call: the environment      *)
(* fulfils it with a list of suggestions or rejects it.                    *)

\* how many of the suffix variants of POSTFIXES (15 in the code) are modelled
MaxPostfixes == 3

\* the slice(0, 20) of both branches
MaxSuggestions == 20

Min(a, b) == IF a <= b THEN a ELSE b

Max(a, b) == IF a >= b THEN a ELSE b

\* WhiteSpace and LineTerminator of ECMAScript, which String.prototype.trim
\* removes and \s matches: tab, line feed, vertical tab, form feed, carriage
\* return, space, no-break space and the other space separators, the line and
\* paragraph separators, the byte order mark.  A character with no escape in
\* a string is written as its code point.
IsSpace(c) ==
    c \in {"\t", "\n", "U+000B", "\f", "\r", " ", "U+00A0", "U+1680", "U+2000", "U+2001",
           "U+2002", "U+2003", "U+2004", "U+2005", "U+2006", "U+2007", "U+2008", "U+2009",
           "U+200A", "U+2028", "U+2029", "U+202F", "U+205F", "U+3000", "U+FEFF"}

RECURSIVE TrimStart(_)
TrimStart(str) ==
    IF str # <<>> /\ IsSpace(Head(str)) THEN TrimStart(Tail(str)) ELSE str

RECURSIVE TrimEnd(_)
TrimEnd(str) ==
    IF str # <<>> /\ IsSpace(str[Len(str)])
    THEN TrimEnd(SubSeq(str, 1, Len(str) - 1))
    ELSE str

\* String.prototype.trim
Trim(str) == TrimEnd(TrimStart(str))

\* kw.replace(/<[^>]*>/g, ''): from a `<` to the first `>` after it
RECURSIVE StripTags(_)
StripTags(kw) ==
    IF kw = <<>> THEN <<>>
    ELSE IF Head(kw) = "<" /\ \E j \in 2..Len(kw) : kw[j] = ">"
    THEN LET j == CHOOSE j \in 2..Len(kw) :
                      kw[j] = ">" /\ \A k \in 2..(j - 1) : kw[k] # ">"
         IN StripTags(SubSeq(kw, j + 1, Len(kw)))
    ELSE <<Head(kw)>> \o StripTags(Tail(kw))

\* Array.from(new Set(...)): the first occurrences, in insertion order
Distinct(list) ==
    LET first == {i \in DOMAIN list : \A j \in 1..(i - 1) : list[j] # list[i]}
    IN [k \in 1..Cardinality(first) |->
            list[CHOOSE i \in first : Cardinality({j \in first : j < i}) = k - 1]]

\* slice(0, n)
Slice(list, n) == SubSeq(list, 1, Min(n, Len(list)))

\* mutant: the index is the id
WithIds_ZeroBased(list) == [i \in 1..Len(list) |-> [id |-> i - 1, keyword |-> list[i]]]

\* map((kw, index) => ({ id: index + 1, keyword: kw }))
WithIds(list) == [i \in 1..Len(list) |-> [id |-> i, keyword |-> list[i]]]

Pending == [status |-> "pending", value |-> <<>>, reason |-> NoError]

Fulfilled(v) == [status |-> "fulfilled", value |-> v, reason |-> NoError]

Rejected(e) == [status |-> "rejected", value |-> <<>>, reason |-> e]

\* successfulResults: the values of the fulfilled settlements, in the order of searchTerms
RECURSIVE SuccessfulResults(_)
SuccessfulResults(setl) ==
    IF setl = <<>> THEN <<>>
    ELSE LET init == SuccessfulResults(SubSeq(setl, 1, Len(setl) - 1))
             x == setl[Len(setl)]
         IN IF x.status = "fulfilled" THEN Append(init, x.value) ELSE init

\* all suggestions of successfulResults, tags stripped, in the order they are added
RECURSIVE AllSuggestions(_)
AllSuggestions(results) ==
    IF results = <<>> THEN <<>>
    ELSE AllSuggestions(SubSeq(results, 1, Len(results) - 1))
         \o [i \in 1..Len(results[Len(results)]) |-> StripTags(results[Len(results)][i])]

EmptyKeywordError == MkError("Error", <<"keyword", "is", "empty">>)

AllRejectedError(kw) ==
    MkError("Error", <<"Naver", "autocomplete", "failed", "for">> \o kw \o <<"all", "rejected">>)

Returns(list) == [kind |-> "value", list |-> list, error |-> NoError]

Raises(e) == [kind |-> "error", list |-> <<>>, error |-> e]

\* mutant: Promise.all for Promise.allSettled: one rejection rejects the whole
RelatedResult_AllOrNothing(src, kw, setl) ==
    IF \E i \in DOMAIN setl : setl[i].status = "rejected"
    THEN Raises((setl[CHOOSE i \in DOMAIN setl : setl[i].status = "rejected"]).reason)
    ELSE Returns(WithIds(Slice(Distinct(AllSuggestions(SuccessfulResults(setl))),
                               MaxSuggestions)))

\* mutant: the results are taken in the order the sub-fetches settled
RelatedResult_CompletionOrder(src, kw, setl) ==
    IF src = "naver"
    THEN IF Len(SuccessfulResults(setl)) = 0
         THEN Raises(AllRejectedError(kw))
         ELSE Returns(WithIds(Slice(Distinct(AllSuggestions(SuccessfulResults(
                  [k \in DOMAIN completion |-> setl[completion[k]]]))), MaxSuggestions)))
    ELSE IF setl[1].status = "rejected" THEN Raises(setl[1].reason)
    ELSE Returns(WithIds(Slice(setl[1].value, MaxSuggestions)))

\* mutant: the test of successfulResults.length is missing
RelatedResult_NeverRaises(src, kw, setl) ==
    IF src = "naver"
    THEN Returns(WithIds(Slice(Distinct(AllSuggestions(SuccessfulResults(setl))),
                               MaxSuggestions)))
    ELSE IF setl[1].status = "rejected" THEN Raises(setl[1].reason)
    ELSE Returns(WithIds(Slice(setl[1].value, MaxSuggestions)))

\* the code after the await, for settlements that are all settled
RelatedResult(src, kw, setl) ==
    IF src = "naver"
    THEN IF Len(SuccessfulResults(setl)) = 0
         THEN Raises(AllRejectedError(kw))
         ELSE Returns(WithIds(Slice(Distinct(AllSuggestions(SuccessfulResults(setl))),
                                    MaxSuggestions)))
    ELSE IF setl[1].status = "rejected" THEN Raises(setl[1].reason)
    ELSE Returns(WithIds(Slice(setl[1].value, MaxSuggestions)))

\* the arguments of the call
KeywordInputs == { <<>>, <<" ">>, <<"\t", "U+3000">>, <<"a">> }

Sources == {"naver", "google"}

\* the lists a sub-fetch can be fulfilled with
SuggestionLists ==
    { <<>>,
      << <<"a">>, <<"b">> >>,
      << <<"<", "b", ">", "a">>, <<"a", "<">> >>,
      [i \in 1..(MaxSuggestions + 1) |-> <<"k", ToString(i)>>] }

\* the errors a sub-fetch can be rejected with
RejectionReasons ==
    { MkError("Error", ConnectivityMessage),
      MkError("Error", <<"Naver", "API", "unexpected", "response">>) }

\* fetchRelatedKeywords(keyword, source) runs to its await, or throws for a blank keyword
CallRelated ==
    /\ relatedPc = "idle"
    /\ \E kw \in KeywordInputs, src \in Sources :
          /\ keyword' = kw
          /\ source' = src
          /\ IF Trim(kw) = <<>>
             THEN /\ relatedPc' = "raised"
                  /\ relatedOutcome' = Raises(EmptyKeywordError)
                  /\ UNCHANGED settlements
             ELSE /\ relatedPc' = "waiting"
                  /\ settlements' =
                        [i \in 1..(IF src = "naver" THEN MaxPostfixes ELSE 1) |-> Pending]
                  /\ UNCHANGED relatedOutcome
    /\ UNCHANGED <<completion, fetchVars, exVars, aiVars, appVars>>

\* one of the sub-fetches settles
SubFetchSettles ==
    /\ relatedPc = "waiting"
    /\ \E i \in DOMAIN settlements :
          /\ settlements[i].status = "pending"
          /\ \E s \in {Fulfilled(v) : v \in SuggestionLists}
                        \cup {Rejected(e) : e \in RejectionReasons} :
                settlements' = [settlements EXCEPT ![i] = s]
          /\ completion' = Append(completion, i)
    /\ UNCHANGED <<relatedPc, keyword, source, relatedOutcome, fetchVars, exVars, aiVars, appVars>>

\* all sub-fetches have settled: the await is over, the call returns or throws
AllSettled ==
    /\ relatedPc = "waiting"
    /\ \A i \in DOMAIN settlements : settlements[i].status # "pending"
    /\ relatedOutcome' = RelatedResult(source, keyword, settlements)
    /\ relatedPc' = IF relatedOutcome'.kind = "value" THEN "returned" ELSE "raised"
    /\ UNCHANGED <<keyword, source, settlements, completion, fetchVars, exVars, aiVars, appVars>>

NextRelated == CallRelated \/ SubFetchSettles \/ AllSettled

SpecRelated == Init /\ [][NextRelated]_vars

NumFulfilled == Cardinality({i \in DOMAIN settlements : settlements[i].status = "fulfilled"})

\* the suggestions of the fulfilled sub-fetches, tags stripped
FulfilledSuggestions ==
    { StripTags(settlements[i].value[j]) :
        <<i, j>> \in { x \in (DOMAIN settlements) \X (1..(MaxSuggestions + 1)) :
                         /\ settlements[x[1]].status = "fulfilled"
                         /\ x[2] <= Len(settlements[x[1]].value) } }

\* C13: a call for 'naver' has one sub-fetch per suffix variant, all started
\* before any has settled; once all have settled with at least one fulfilled, the
\* call has returned, not raised, and every entry of its list is a suggestion of
\* a fulfilled sub-fetch; no error of a rejected one is in the outcome.
C13_FulfilledOnlyAggregated ==
    (source = "naver" /\ relatedPc # "idle" /\ Trim(keyword) # <<>>) =>
        /\ DOMAIN settlements = 1..MaxPostfixes
        /\ (relatedPc \in {"returned", "raised"} /\ NumFulfilled >= 1) =>
              /\ relatedPc = "returned"
              /\ relatedOutcome.kind = "value"
              /\ relatedOutcome.error = NoError
              /\ LET suggestions == FulfilledSuggestions
                 IN /\ \A n \in DOMAIN relatedOutcome.list :
                          relatedOutcome.list[n].keyword \in suggestions
                    /\ Cardinality(suggestions) <= MaxSuggestions =>
                          \A kw \in suggestions :
                              \E n \in DOMAIN relatedOutcome.list :
                                  relatedOutcome.list[n].keyword = kw

C13_Witness ==
    /\ source = "naver"
    /\ relatedPc = "returned"
    /\ NumFulfilled = 1
    /\ settlements[2].status = "fulfilled"
    /\ Len(relatedOutcome.list) = 2

\* C14: a finished call for 'naver' with a keyword that is not blank has raised
\* if and only if none of its sub-fetches was fulfilled, and then with the
\* all-rejected error; it has not returned an empty list for that.
C14_RaisesIffNoneFulfilled ==
    (source = "naver" /\ relatedPc \in {"returned", "raised"} /\ Trim(keyword) # <<>>) =>
        /\ relatedPc = "raised" <=> NumFulfilled = 0
        /\ relatedPc = "raised" =>
              /\ relatedOutcome.kind = "error"
              /\ relatedOutcome.error.message[1] = "Naver"
              /\ relatedOutcome.error \notin RejectionReasons

C14_Witness ==
    /\ source = "naver"
    /\ relatedPc = "raised"
    /\ Len(completion) = MaxPostfixes
    /\ NumFulfilled = 0

-----------------------------------------------------------------------------
(* extractJsonFromText                                                     *)
(*                                                                         *)
(* A text is a sequence of characters, with the fence ``` and the label    *)
(* json as one element each. Indices are those of the code, from 0, and -1 *)
(* for none.                                                               *)

\* the longest text given to the extractor
MaxTextLen == 5

\* the three backticks of a code fence
Fence == "fence"

JsonLabel == "json"

\* the characters of the texts
ExAlphabet == {"[", "]", "{", "}", "\"", "\\", Fence, JsonLabel, " ", "1"}

\* longer answers: prose, an empty fenced block, then a fenced block with a value;
\* a string with an escaped quote, a closer and an escaped backslash; white
\* space of either kind; strings with control characters and escapes;
\* numbers and literals, well formed and not
ExSamples ==
    {<<"[", "]", Fence, Fence, Fence, JsonLabel, "{", "}", Fence>>,
     <<"[", "\"", "\\", "\"", "]", "\\", "\\", "\"", "]">>,
     <<Fence, "\n", Fence, "\n", "[", "1", "]", "\n", Fence, JsonLabel, "\n", "{", "}", "\n", Fence>>,
     <<"\t", "\f", "[", "\r", "1", "\t", "]", "U+00A0", "\r">>,
     <<"U+FEFF", "[", "\f", "]", "]", "U+2028">>,
     <<Fence, JsonLabel, "\f", "U+000B", "{", "\r", "}", "\t", "U+3000", Fence>>,
     <<"[", "\"", "U+0001", "\"", "]">>,
     <<"[", "\"", "U+001F", "]", "\"", "]">>,
     <<"[", "\"", "\\", "n", "\"", "]">>,
     <<"[", "\"", "\\", "u", "0", "0", "4", "1", "\"", ",", "\"", "A", "\"", "]">>,
     <<"[", "\"", "\\", "u", "0", "0", "0", "a", "\\", "/", "\\", "b", "\"", "]">>,
     <<"[", "\"", "\\", "u", "0", "0", "4", "\"", "]">>,
     <<"[", "\"", "\\", "x", "\"", "]">>,
     <<"{", "\"", "a", "\"", ":", "-", "1", "0", ".", "5", "0", "e", "+", "2", "}">>,
     <<"[", "t", "r", "u", "e", ",", "f", "a", "l", "s", "e", ",", " ", "n", "u", "l", "l", "]">>,
     <<"[", "0", ",", "-", "0", ".", "0", ",", "1", "E", "-", "1", "]">>,
     <<"[", "0", "1", "]">>,
     <<"[", "1", ".", "]">>,
     <<"[", "-", "]">>,
     <<"[", "n", "u", "l", "]">>}

ExTexts == UNION {[1..n -> ExAlphabet] : n \in 0..MaxTextLen} \cup ExSamples

\* str[i]
CharAt(str, i) == str[i + 1]

\* String.prototype.substring(a, b): indices clamped to the text and swapped if a > b
Substring(str, a, b) ==
    LET ca == Max(0, Min(a, Len(str)))
        cb == Max(0, Min(b, Len(str)))
    IN SubSeq(str, Min(ca, cb) + 1, Max(ca, cb))

\* String.prototype.lastIndexOf(c)
LastIndexOf(str, c) ==
    IF \E i \in DOMAIN str : str[i] = c
    THEN (CHOOSE i \in DOMAIN str : str[i] = c /\ \A j \in DOMAIN str : j > i => str[j] # c) - 1
    ELSE -1

\* jsonString.match(/```(?:json)?\s*([\s\S]*?)\s*```/): the match starts at the first
\* fence that has a fence after it and ends at the next fence; the group is what is
\* between them, without the label and the white space around
FenceMatch(str) ==
    LET fences == {i \in DOMAIN str : str[i] = Fence} IN
    IF Cardinality(fences) < 2 THEN [matched |-> FALSE, group |-> <<>>]
    ELSE LET open == CHOOSE i \in fences : \A j \in fences : i <= j
             close == CHOOSE i \in fences \ {open} : \A j \in fences \ {open} : i <= j
             afterLabel == IF str[open + 1] = JsonLabel THEN open + 2 ELSE open + 1
             from == CHOOSE i \in afterLabel..close :
                        /\ i = close \/ ~IsSpace(str[i])
                        /\ \A j \in afterLabel..(i - 1) : IsSpace(str[j])
             to == CHOOSE e \in from..close :
                        /\ \A j \in e..(close - 1) : IsSpace(str[j])
                        /\ \A d \in from..(e - 1) : \E j \in d..(close - 1) : ~IsSpace(str[j])
         IN [matched |-> TRUE, group |-> SubSeq(str, from, to - 1)]

\* mutant: the fence is not looked for
SearchText_NoFence(t) == Trim(t)

\* jsonString before the search for the start
SearchText(t) ==
    LET m == FenceMatch(Trim(t)) IN
    IF m.matched /\ m.group # <<>> THEN Trim(m.group) ELSE Trim(t)

\* mutant: a missing start is taken for the start of the text
StartIndex_Clamped(str) ==
    IF \E i \in DOMAIN str : str[i] \in {"[", "{"}
    THEN (CHOOSE i \in DOMAIN str :
              str[i] \in {"[", "{"} /\ \A j \in 1..(i - 1) : str[j] \notin {"[", "{"}) - 1
    ELSE IF str = <<>> THEN -1 ELSE 0

\* jsonString.search(/[[{]/)
StartIndex(str) ==
    IF \E i \in DOMAIN str : str[i] \in {"[", "{"}
    THEN (CHOOSE i \in DOMAIN str :
              str[i] \in {"[", "{"} /\ \A j \in 1..(i - 1) : str[j] \notin {"[", "{"}) - 1
    ELSE -1

\* the variables of the scan before the for loop
LoopStart == [inString |-> FALSE, escapeChar |-> FALSE, openCount |-> 0, endIndex |-> -1]

\* mutant: the backslash is a character like any other
LoopBody_NoEscape(str, st, i, startChar, endChar) ==
    LET char == CharAt(str, i)
        inStr == IF char = "\"" THEN ~st.inString ELSE st.inString
        count == IF inStr THEN st.openCount
                 ELSE IF char = startChar THEN st.openCount + 1
                 ELSE IF char = endChar THEN st.openCount - 1
                 ELSE st.openCount
    IN [st EXCEPT !.inString = inStr, !.openCount = count,
                  !.endIndex = IF count = 0 THEN i ELSE -1]

\* the body of the for loop at index i, with the variables st
LoopBody(str, st, i, startChar, endChar) ==
    LET char == CharAt(str, i) IN
    IF st.escapeChar THEN [st EXCEPT !.escapeChar = FALSE]
    ELSE IF char = "\\" THEN [st EXCEPT !.escapeChar = TRUE]
    ELSE LET inStr == IF char = "\"" THEN ~st.inString ELSE st.inString
             count == IF inStr THEN st.openCount
                      ELSE IF char = startChar THEN st.openCount + 1
                      ELSE IF char = endChar THEN st.openCount - 1
                      ELSE st.openCount
         IN [st EXCEPT !.inString = inStr, !.openCount = count,
                       !.endIndex = IF count = 0 THEN i ELSE -1]

\* the for loop over the indices from..(to - 1), in order, from the variables
\* st: the first half of the indices, then, unless the loop broke, the second
RECURSIVE ScanFrom(_, _, _, _, _, _)
ScanFrom(str, st, from, to, startChar, endChar) ==
    IF from >= to THEN st
    ELSE IF to - from = 1 THEN LoopBody(str, st, from, startChar, endChar)
    ELSE LET firstHalf == ScanFrom(str, st, from, (from + to) \div 2, startChar, endChar)
         IN IF firstHalf.endIndex # -1 THEN firstHalf
            ELSE ScanFrom(str, firstHalf, (from + to) \div 2, to, startChar, endChar)

\* the loop of a scan that does not know strings
RECURSIVE NaiveScanFrom(_, _, _, _, _)
NaiveScanFrom(str, i, openCount, startChar, endChar) ==
    IF i >= Len(str) THEN -1
    ELSE LET char == CharAt(str, i)
             count == IF char = startChar THEN openCount + 1
                      ELSE IF char = endChar THEN openCount - 1
                      ELSE openCount
         IN IF count = 0 THEN i ELSE NaiveScanFrom(str, i + 1, count, startChar, endChar)

EndCharOf(startChar) == IF startChar = "[" THEN "]" ELSE "}"

\* mutant: brackets in strings are counted
ScanEnd_NoStrings(str, startIndex) ==
    NaiveScanFrom(str, startIndex, 0, CharAt(str, startIndex),
                  EndCharOf(CharAt(str, startIndex)))

\* endIndex after the loop
ScanEnd(str, startIndex) ==
    ScanFrom(str, LoopStart, startIndex, Len(str), CharAt(str, startIndex),
             EndCharOf(CharAt(str, startIndex))).endIndex

\* mutant: only the last `}` is looked for
FallbackEnd_BraceOnly(str) == LastIndexOf(str, "}")

\* the fallback: Math.max(lastBrace, lastBracket)
FallbackEnd(str) == Max(LastIndexOf(str, "}"), LastIndexOf(str, "]"))

\* mutant: the old logic alone, from the first opener to the last closer
EndIndex_LastCloser(str, startIndex) == FallbackEnd(str)

\* endIndex before the slice
EndIndex(str, startIndex) ==
    IF ScanEnd(str, startIndex) # -1 THEN ScanEnd(str, startIndex) ELSE FallbackEnd(str)

\* what extractJsonFromText returns or throws
ExOk(v) == [ok |-> TRUE, value |-> v, thrown |-> NoError]

ExThrow(e) == [ok |-> FALSE, value |-> <<>>, thrown |-> e]

\* what JSON.parse throws
JsonSyntaxError == MkError("SyntaxError", <<"Unexpected", "token", "in", "JSON">>)

\* the white space of the JSON grammar, which JSON.parse skips between tokens:
\* tab, line feed, carriage return and space, and no other character
IsJsonSpace(c) == c \in {"\t", "\n", "\r", " "}

\* the index of the first character from i on that is not white space
RECURSIVE SkipWs(_, _)
SkipWs(str, i) ==
    IF i <= Len(str) /\ IsJsonSpace(str[i]) THEN SkipWs(str, i + 1) ELSE i

\* the control characters U+0000 to U+001F, in the order of their codes; a
\* character that cannot be written in a string here has its code as name
Controls ==
    <<"U+0000", "U+0001", "U+0002", "U+0003", "U+0004", "U+0005", "U+0006", "U+0007",
      "U+0008", "\t", "\n", "U+000B", "\f", "\r", "U+000E", "U+000F",
      "U+0010", "U+0011", "U+0012", "U+0013", "U+0014", "U+0015", "U+0016", "U+0017",
      "U+0018", "U+0019", "U+001A", "U+001B", "U+001C", "U+001D", "U+001E", "U+001F">>

ControlChars == {Controls[n] : n \in DOMAIN Controls}

\* JSON.parse allows no control character in a string
IsControl(c) == c \in ControlChars

\* the characters U+0020 to U+007E, in the order of their codes
Ascii ==
    <<" ", "!", "\"", "#", "$", "%", "&", "'", "(", ")", "*", "+", ",", "-", ".", "/",
      "0", "1", "2", "3", "4", "5", "6", "7", "8", "9", ":", ";", "<", "=", ">", "?",
      "@", "A", "B", "C", "D", "E", "F", "G", "H", "I", "J", "K", "L", "M", "N", "O",
      "P", "Q", "R", "S", "T", "U", "V", "W", "X", "Y", "Z", "[", "\\", "]", "^", "_",
      "U+0060", "a", "b", "c", "d", "e", "f", "g", "h", "i", "j", "k", "l", "m", "n", "o",
      "p", "q", "r", "s", "t", "u", "v", "w", "x", "y", "z", "{", "|", "}", "~">>

\* the digits of a number, and their values less one as indices
DigitChars == <<"0", "1", "2", "3", "4", "5", "6", "7", "8", "9">>

Digits == {DigitChars[n] : n \in DOMAIN DigitChars}

IsDigit(c) == c \in Digits

DigitValue(c) == (CHOOSE n \in DOMAIN DigitChars : DigitChars[n] = c) - 1

\* the hexadecimal digits, upper case and lower case
UpperHex == DigitChars \o <<"A", "B", "C", "D", "E", "F">>

LowerHex == DigitChars \o <<"a", "b", "c", "d", "e", "f">>

HexDigits == {UpperHex[n] : n \in DOMAIN UpperHex} \cup {LowerHex[n] : n \in DOMAIN LowerHex}

IsHexDigit(c) == c \in HexDigits

HexValue(c) == (CHOOSE n \in DOMAIN UpperHex : c \in {UpperHex[n], LowerHex[n]}) - 1

\* the character of the escape \uXXXX with the four digits a, b, c, d
CodeUnit(a, b, c, d) ==
    LET code == 4096 * HexValue(a) + 256 * HexValue(b) + 16 * HexValue(c) + HexValue(d)
    IN  IF code < 32 THEN Controls[code + 1]
        ELSE IF code < 127 THEN Ascii[code - 31]
        ELSE "U+" \o UpperHex[HexValue(a) + 1] \o UpperHex[HexValue(b) + 1]
                  \o UpperHex[HexValue(c) + 1] \o UpperHex[HexValue(d) + 1]

\* the characters that can follow a backslash in a string, but for u
SimpleEscapes == {"\"", "\\", "/", "b", "f", "n", "r", "t"}

\* the character of the escape with the character c after the backslash
EscapeValue(c) ==
    CASE c = "b" -> "U+0008"
      [] c = "f" -> "\f"
      [] c = "n" -> "\n"
      [] c = "r" -> "\r"
      [] c = "t" -> "\t"
      [] OTHER -> c

\* the index of the quote that closes the string whose content starts at j,
\* or 0: the string does not end, or it holds a control character or a
\* backslash that starts no escape
RECURSIVE StringEnd(_, _)
StringEnd(str, j) ==
    IF j > Len(str) THEN 0
    ELSE IF str[j] = "\"" THEN j
    ELSE IF str[j] = "\\"
    THEN IF j + 1 > Len(str) THEN 0
         ELSE IF str[j + 1] \in SimpleEscapes THEN StringEnd(str, j + 2)
         ELSE IF /\ str[j + 1] = "u"
                 /\ j + 5 <= Len(str)
                 /\ \A m \in (j + 2)..(j + 5) : IsHexDigit(str[m])
         THEN StringEnd(str, j + 6)
         ELSE 0
    ELSE IF IsControl(str[j]) THEN 0
    ELSE StringEnd(str, j + 1)

\* the characters of the string whose content lies from j to k - 1
RECURSIVE Unescape(_, _, _)
Unescape(str, j, k) ==
    IF j >= k THEN <<>>
    ELSE IF str[j] # "\\" THEN <<str[j]>> \o Unescape(str, j + 1, k)
    ELSE IF str[j + 1] = "u"
    THEN <<CodeUnit(str[j + 2], str[j + 3], str[j + 4], str[j + 5])>>
             \o Unescape(str, j + 6, k)
    ELSE <<EscapeValue(str[j + 1])>> \o Unescape(str, j + 2, k)

\* the text of a string with the characters chars: quote, backslash and the
\* control characters escaped, as JSON.stringify writes them
RECURSIVE Quoted(_)
Quoted(chars) ==
    IF chars = <<>> THEN <<>>
    ELSE LET c == Head(chars)
             code == (CHOOSE n \in DOMAIN Controls : Controls[n] = c) - 1
         IN  (CASE c \in {"\"", "\\"} -> <<"\\", c>>
                [] c = "U+0008" -> <<"\\", "b">>
                [] c = "\f" -> <<"\\", "f">>
                [] c = "\n" -> <<"\\", "n">>
                [] c = "\r" -> <<"\\", "r">>
                [] c = "\t" -> <<"\\", "t">>
                [] IsControl(c) /\ c \notin {"U+0008", "\f", "\n", "\r", "\t"} ->
                       <<"\\", "u", "0", "0", LowerHex[(code \div 16) + 1],
                         LowerHex[(code % 16) + 1]>>
                [] OTHER -> <<c>>)
             \o Quoted(Tail(chars))

\* the index after the digits that start at i
DigitsEnd(str, i) ==
    IF \A j \in i..Len(str) : IsDigit(str[j]) THEN Max(i, Len(str) + 1)
    ELSE CHOOSE j \in i..Len(str) : ~IsDigit(str[j]) /\ \A k \in i..(j - 1) : IsDigit(str[k])

\* the index after the number that starts at i, or 0: an optional minus, 0 or
\* digits that start with no 0, an optional fraction, an optional exponent
NumberEnd(str, i) ==
    LET intStart == IF str[i] = "-" THEN i + 1 ELSE i
        intEnd == IF intStart <= Len(str) /\ str[intStart] = "0" THEN intStart + 1
                  ELSE DigitsEnd(str, intStart)
        fracEnd == IF intEnd <= Len(str) /\ str[intEnd] = "." THEN DigitsEnd(str, intEnd + 1)
                   ELSE intEnd
        expStart == IF fracEnd + 1 <= Len(str) /\ str[fracEnd + 1] \in {"+", "-"}
                    THEN fracEnd + 2 ELSE fracEnd + 1
    IN  IF intEnd = intStart THEN 0
        ELSE IF fracEnd = intEnd + 1 THEN 0
        ELSE IF fracEnd <= Len(str) /\ str[fracEnd] \in {"e", "E"}
        THEN IF DigitsEnd(str, expStart) = expStart THEN 0 ELSE DigitsEnd(str, expStart)
        ELSE fracEnd

\* the digits ds without the zeros they start with
NoLeadingZeros(ds) ==
    IF \A i \in DOMAIN ds : ds[i] = "0" THEN <<>>
    ELSE SubSeq(ds, CHOOSE i \in DOMAIN ds : ds[i] # "0" /\ \A j \in 1..(i - 1) : ds[j] = "0",
                Len(ds))

\* the number with the digits ds
RECURSIVE DigitsValue(_)
DigitsValue(ds) ==
    IF ds = <<>> THEN 0
    ELSE 10 * DigitsValue(SubSeq(ds, 1, Len(ds) - 1)) + DigitValue(ds[Len(ds)])

\* the digits of the number n
RECURSIVE DigitsOf(_)
DigitsOf(n) ==
    IF n < 10 THEN <<DigitChars[n + 1]>> ELSE DigitsOf(n \div 10) \o <<DigitChars[(n % 10) + 1]>>

\* the digits ds without the zeros they end with
NoTrailingZeros(ds) ==
    IF \A i \in DOMAIN ds : ds[i] = "0" THEN <<>>
    ELSE SubSeq(ds, 1,
                CHOOSE i \in DOMAIN ds : ds[i] # "0" /\ \A j \in (i + 1)..Len(ds) : ds[j] = "0")

\* A natural number of any size is the sequence of its decimal digits, 0 the
\* empty one: the numbers of a double do not fit the integers at hand.
BigOf(ds) == [i \in DOMAIN ds |-> DigitValue(ds[i])]

BigText(x) == [i \in DOMAIN x |-> DigitChars[x[i] + 1]]

RECURSIVE BigOfInt(_)
BigOfInt(n) == IF n = 0 THEN <<>> ELSE Append(BigOfInt(n \div 10), n % 10)

BigTrim(x) ==
    IF \A i \in DOMAIN x : x[i] = 0 THEN <<>>
    ELSE SubSeq(x, CHOOSE i \in DOMAIN x : x[i] # 0 /\ \A j \in 1..(i - 1) : x[j] = 0, Len(x))

BigLess(x, y) ==
    \/ Len(x) < Len(y)
    \/ /\ Len(x) = Len(y)
       /\ \E i \in DOMAIN x : x[i] < y[i] /\ \A j \in 1..(i - 1) : x[j] = y[j]

\* c times the digits of x from the lo-th to the hi-th, plus carry: the digits
\* of as many places, and what is carried on; one half after the other
RECURSIVE BigTimesRange(_, _, _, _, _)
BigTimesRange(x, c, lo, hi, carry) ==
    IF lo = hi
    THEN [digits |-> <<(x[lo] * c + carry) % 10>>, carry |-> (x[lo] * c + carry) \div 10]
    ELSE CHOOSE product \in
            { CHOOSE whole \in
                 { [digits |-> high.digits \o low.digits, carry |-> high.carry]
                   : high \in {BigTimesRange(x, c, lo, (lo + hi) \div 2, low.carry)} } : TRUE
              : low \in {BigTimesRange(x, c, ((lo + hi) \div 2) + 1, hi, carry)} } : TRUE

BigTimes(x, c) ==
    IF x = <<>> THEN <<>>
    ELSE CHOOSE product \in
            { BigOfInt(r.carry) \o r.digits : r \in {BigTimesRange(x, c, 1, Len(x), 0)} } : TRUE

BigPlusOne(x) ==
    IF x = <<>> THEN <<1>>
    ELSE CHOOSE sum \in
            { BigOfInt(r.carry) \o r.digits : r \in {BigTimesRange(x, 1, 1, Len(x), 1)} } : TRUE

\* the digits of x from the lo-th to the hi-th after rem, divided by c: the
\* digits of as many places, and the remainder
RECURSIVE BigDivRange(_, _, _, _, _)
BigDivRange(x, c, lo, hi, rem) ==
    IF lo = hi
    THEN [digits |-> <<(rem * 10 + x[lo]) \div c>>, remainder |-> (rem * 10 + x[lo]) % c]
    ELSE CHOOSE division \in
            { CHOOSE whole \in
                 { [digits |-> high.digits \o low.digits, remainder |-> low.remainder]
                   : low \in {BigDivRange(x, c, ((lo + hi) \div 2) + 1, hi, high.remainder)} } : TRUE
              : high \in {BigDivRange(x, c, lo, (lo + hi) \div 2, rem)} } : TRUE

BigDiv(x, c) ==
    IF x = <<>> THEN [quotient |-> <<>>, remainder |-> 0]
    ELSE CHOOSE division \in
            { [quotient |-> BigTrim(r.digits), remainder |-> r.remainder]
              : r \in {BigDivRange(x, c, 1, Len(x), 0)} } : TRUE

BigOdd(x) == x # <<>> /\ x[Len(x)] % 2 = 1

\* x divided by 10^t, and whether that leaves a remainder
BigShift(x, t) == IF Len(x) <= t THEN <<>> ELSE SubSeq(x, 1, Len(x) - t)

BigShiftLeaves(x, t) == \E i \in DOMAIN x : i > Len(x) - t /\ x[i] # 0

\* 2^53 and 2^54
Two53 == <<9, 0, 0, 7, 1, 9, 9, 2, 5, 4, 7, 4, 0, 9, 9, 2>>

Two54 == <<1, 8, 0, 1, 4, 3, 9, 8, 5, 0, 9, 4, 8, 1, 9, 8, 4>>

\* the least power of two of a double, less one for the bit that rounds
MinPower == 0 - 1075

\* x * 2^k and x * 5^k, by halves of k
RECURSIVE TimesTwos(_, _)
TimesTwos(x, k) ==
    IF k <= 24 THEN BigTimes(x, 2 ^ k)
    ELSE CHOOSE product \in
            { TimesTwos(half, k - (k \div 2)) : half \in {TimesTwos(x, k \div 2)} } : TRUE

RECURSIVE TimesFives(_, _)
TimesFives(x, k) ==
    IF k <= 10 THEN BigTimes(x, 5 ^ k)
    ELSE CHOOSE product \in
            { TimesFives(half, k - (k \div 2)) : half \in {TimesFives(x, k \div 2)} } : TRUE

\* x divided by 2^k, and whether that leaves a remainder
RECURSIVE DivTwos(_, _)
DivTwos(x, k) ==
    IF k <= 24
    THEN CHOOSE division \in
            { [quotient |-> d.quotient, lost |-> d.remainder # 0]
              : d \in {BigDiv(x, 2 ^ k)} } : TRUE
    ELSE CHOOSE division \in
            { CHOOSE whole \in
                 { [quotient |-> second.quotient, lost |-> first.lost \/ second.lost]
                   : second \in {DivTwos(first.quotient, k - (k \div 2))} } : TRUE
              : first \in {DivTwos(x, k \div 2)} } : TRUE

\* How many times a number of n decimal digits, 17 or more, can be halved and
\* stay over 2^53; how many times a number under 10^n can be doubled and stay
\* under 2^53: 10^n lies between 2^(3.3219 n) and 2^(3.3220 n).
Halvings(n) == ((n - 17) * 33219) \div 10000

Doublings(n) ==
    IF n >= 0 THEN 53 - ((n * 33220 + 9999) \div 10000)
    ELSE 53 + (((0 - n) * 33219) \div 10000)

\* The number x / 10^t as y * 2^e / 10^t: with 54 bits before the point, the
\* last of them the bit that rounds, or with e the least power; lost tells
\* that the halving has dropped a bit that was 1.
RECURSIVE Normalized(_, _, _, _)
Normalized(x, t, e, lost) ==
    CHOOSE n \in
        { IF ~BigLess(q, Two54)
          THEN CHOOSE m \in { Normalized(d.quotient, t, e + Max(1, Halvings(Len(q))),
                                         lost \/ d.lost)
                              : d \in {DivTwos(x, Max(1, Halvings(Len(q))))} } : TRUE
          ELSE IF ~BigLess(q, Two53) \/ e = MinPower
          THEN [bits |-> q, power |-> e, lost |-> lost \/ BigShiftLeaves(x, t)]
          ELSE CHOOSE m \in { CHOOSE r \in { Normalized(y, t, e - k, lost)
                                              : y \in {TimesTwos(x, k)} } : TRUE
                              : k \in {Max(1, Min(e - MinPower, Doublings(Len(x) - t)))} } : TRUE
          : q \in {BigShift(x, t)} } : TRUE

\* The double nearest to x * 10^scale, x not 0, ties to the even one: bits
\* times 2^power.  It is infinite from 2^1024 on, and it is 0 with no bits.
Nearest(x, scale) ==
    CHOOSE double \in
        { CHOOSE rounded \in
             { IF n.power + 1 > 971 \/ (n.power + 1 = 971 /\ ~BigLess(bits, Two53))
               THEN [infinite |-> TRUE, bits |-> <<>>, power |-> 0]
               ELSE [infinite |-> FALSE, bits |-> bits, power |-> n.power + 1]
               : bits \in { CHOOSE up \in
                               { IF half.remainder = 1 /\ (n.lost \/ BigOdd(half.quotient))
                                 THEN BigPlusOne(half.quotient)
                                 ELSE half.quotient
                                 : half \in {BigDiv(n.bits, 2)} } : TRUE } } : TRUE
          : n \in { Normalized(IF scale > 0 THEN x \o [i \in 1..scale |-> 0] ELSE x,
                               IF scale < 0 THEN 0 - scale ELSE 0, 0, FALSE) } } : TRUE

\* bits * 2^power with the factors 2 of bits taken to the power, up to power 0
RECURSIVE Reduced(_, _)
Reduced(bits, power) ==
    IF power >= 0 \/ BigOdd(bits) THEN [bits |-> bits, power |-> power]
    ELSE Reduced(BigDiv(bits, 2).quotient, power + 1)

\* the digits of m * 10^scale without the zeros they end with, and the power
\* of ten to multiply them with where it is not 0
Decimal(negative, m, scale) ==
    CHOOSE written \in
        { (IF negative THEN <<"-">> ELSE <<>>) \o mantissa
          \o (CHOOSE power \in
                 { IF p = 0 THEN <<>>
                   ELSE IF p < 0 THEN <<"e", "-">> \o DigitsOf(0 - p)
                   ELSE <<"e">> \o DigitsOf(p)
                   : p \in {scale + Len(m) - Len(mantissa)} } : TRUE)
          : mantissa \in {NoTrailingZeros(m)} } : TRUE

\* the value of a double that is not 0, written in decimal digits: all of them
ExactDecimal(negative, double) ==
    CHOOSE written \in
        { IF r.power >= 0
          THEN Decimal(negative, BigText(TimesTwos(r.bits, r.power)), 0)
          ELSE Decimal(negative, BigText(TimesFives(r.bits, 0 - r.power)), r.power)
          : r \in {Reduced(double.bits, double.power)} } : TRUE

\* The greatest number of digits of a whole number that every double holds,
\* and the greatest and the least power of ten with a double that is not
\* infinite and not 0 anywhere near
ExactDigits == 15

MaxPowerOfTen == 309

MinPowerOfTen == 0 - 324

\* what stands for Infinity, which no JSON text names: a text that parses to it
InfinityText == <<"1", "e", "9", "9", "9">>

\* The double with the digits mantissa, no zero at either end, times 10^scale,
\* written in decimal.  A whole number of up to 15 digits is a double; a
\* number of 10^309 or more is infinite, one under 10^-324 is 0; any other is
\* rounded to the nearest double.
DoubleText(negative, mantissa, scale) ==
    IF mantissa = <<>> THEN <<"0">>
    ELSE IF scale >= 0 /\ Len(mantissa) + scale <= ExactDigits
    THEN Decimal(negative, mantissa, scale)
    ELSE IF Len(mantissa) + scale > MaxPowerOfTen
    THEN (IF negative THEN <<"-">> ELSE <<>>) \o InfinityText
    ELSE IF Len(mantissa) + scale <= MinPowerOfTen THEN <<"0">>
    ELSE CHOOSE written \in
            { IF double.infinite THEN (IF negative THEN <<"-">> ELSE <<>>) \o InfinityText
              ELSE IF double.bits = <<>> THEN <<"0">>
              ELSE ExactDecimal(negative, double)
              : double \in {Nearest(BigOf(mantissa), scale)} } : TRUE

\* An exponent beyond this lies beyond every digit of the text: the digits of
\* a text are a number between 10^-Len(text) and 10^Len(text), so that times
\* ten to such an exponent the number is infinite, or is 0.
ExponentLimit(text) == Len(text) + MaxPowerOfTen - MinPowerOfTen

\* The number a number text stands for, as JSON.parse gives it: a double,
\* written in one way, so that 1.0, 1 and 10e-1 are the same number, and 0, -0
\* and 0e5 are, and 0.1 and 0.1000000000000000055 are.  The exponent is read
\* digit by digit, whatever its size.
NumberValue(text) ==
    CHOOSE number \in
        { CHOOSE value \in
             { IF BigLess(BigOfInt(ExponentLimit(text)), BigOf(exponent))
               THEN (IF NoTrailingZeros(digits) = <<>> \/ text[fracEnd + 1] = "-" THEN <<"0">>
                     ELSE (IF Head(text) = "-" THEN <<"-">> ELSE <<>>) \o InfinityText)
               ELSE DoubleText(Head(text) = "-", NoTrailingZeros(digits),
                               (IF fracEnd <= Len(text) /\ text[fracEnd + 1] = "-"
                                THEN 0 - DigitsValue(exponent) ELSE DigitsValue(exponent))
                                - (fracEnd - intEnd - (IF fracEnd > intEnd THEN 1 ELSE 0))
                                + (Len(digits) - Len(NoTrailingZeros(digits))))
               : digits \in { NoLeadingZeros(
                                 SubSeq(text, IF Head(text) = "-" THEN 2 ELSE 1, intEnd - 1)
                                 \o (IF fracEnd > intEnd THEN SubSeq(text, intEnd + 1, fracEnd - 1)
                                     ELSE <<>>)) },
                 exponent \in { IF fracEnd > Len(text) THEN <<>>
                                ELSE IF text[fracEnd + 1] \in {"-", "+"}
                                THEN NoLeadingZeros(SubSeq(text, fracEnd + 2, Len(text)))
                                ELSE NoLeadingZeros(SubSeq(text, fracEnd + 1, Len(text))) } } : TRUE
          : intEnd \in { DigitsEnd(text, IF Head(text) = "-" THEN 2 ELSE 1) },
            fracEnd \in { CHOOSE f \in
                            { IF i <= Len(text) /\ text[i] = "." THEN DigitsEnd(text, i + 1) ELSE i
                              : i \in {DigitsEnd(text, IF Head(text) = "-" THEN 2 ELSE 1)} } : TRUE }
        } : TRUE

\* the characters of a text, put together
RECURSIVE Flat(_)
Flat(text) == IF text = <<>> THEN "" ELSE Head(text) \o Flat(Tail(text))

\* the literals of JSON
Literals == {"true", "false", "null"}

\* how the text of a literal can start
LiteralStarts ==
    {"t", "tr", "tru", "true", "f", "fa", "fal", "fals", "false", "n", "nu", "nul", "null"}

\* the index after the literal that starts at i, or 0
LiteralEnd(str, i) ==
    IF /\ str[i] \in LiteralStarts
       /\ \E k \in i..Min(i + 4, Len(str)) : Flat(SubSeq(str, i, k)) \in Literals
    THEN 1 + CHOOSE k \in i..Min(i + 4, Len(str)) : Flat(SubSeq(str, i, k)) \in Literals
    ELSE 0

NoParse == [ok |-> FALSE, next |-> 0, canon |-> <<>>]

Parsed(next, canon) == [ok |-> TRUE, next |-> next, canon |-> canon]

\* the string that starts with the quote at i
ParseString(str, i) ==
    CHOOSE parsed \in
        { IF k = 0 THEN NoParse
          ELSE Parsed(k + 1, <<"\"">> \o Quoted(Unescape(str, i + 1, k)) \o <<"\"">>)
          : k \in {StringEnd(str, i + 1)} } : TRUE

\* The JSON grammar of JSON.parse: the value that starts at index i, the index
\* after it, and the value.  A value is written as the text JSON.stringify
\* gives for it, but for the numbers, which are written as NumberValue does:
\* two texts of the same value give the same.
RECURSIVE ParseValue(_, _)
RECURSIVE ParseElements(_, _, _)
RECURSIVE ParseMembers(_, _, _)

\* (the value parsed is bound once, as the element of a set of one, and not
\* computed again wherever it is read)
ParseElements(str, i, acc) ==
    CHOOSE parsed \in
        { LET j == SkipWs(str, v.next)
          IN IF ~v.ok \/ j > Len(str) THEN NoParse
             ELSE IF str[j] = "]" THEN Parsed(j + 1, acc \o v.canon \o <<"]">>)
             ELSE IF str[j] = ","
             THEN ParseElements(str, SkipWs(str, j + 1), acc \o v.canon \o <<",">>)
             ELSE NoParse
          : v \in {ParseValue(str, i)} } : TRUE

ParseMembers(str, i, acc) ==
    IF i > Len(str) \/ str[i] # "\"" THEN NoParse
    ELSE CHOOSE parsed \in
            { IF ~key.ok THEN NoParse
              ELSE LET c == SkipWs(str, key.next)
                   IN IF c > Len(str) \/ str[c] # ":" THEN NoParse
                      ELSE CHOOSE member \in
                              { LET j == SkipWs(str, v.next)
                                    sofar == acc \o key.canon \o <<":">> \o v.canon
                                IN IF ~v.ok \/ j > Len(str) THEN NoParse
                                   ELSE IF str[j] = "}" THEN Parsed(j + 1, sofar \o <<"}">>)
                                   ELSE IF str[j] = ","
                                   THEN ParseMembers(str, SkipWs(str, j + 1), sofar \o <<",">>)
                                   ELSE NoParse
                                : v \in {ParseValue(str, SkipWs(str, c + 1))} } : TRUE
              : key \in {ParseString(str, i)} } : TRUE

ParseValue(str, i) ==
    IF i > Len(str) THEN NoParse
    ELSE IF str[i] = "\"" THEN ParseString(str, i)
    ELSE IF str[i] = "-" \/ IsDigit(str[i])
    THEN CHOOSE parsed \in
            { IF n = 0 THEN NoParse ELSE Parsed(n, NumberValue(SubSeq(str, i, n - 1)))
              : n \in {NumberEnd(str, i)} } : TRUE
    ELSE IF str[i] \in {"[", "{"}
    THEN CHOOSE parsed \in
            { IF j <= Len(str) /\ str[i] = "[" /\ str[j] = "]" THEN Parsed(j + 1, <<"[", "]">>)
              ELSE IF j <= Len(str) /\ str[i] = "{" /\ str[j] = "}" THEN Parsed(j + 1, <<"{", "}">>)
              ELSE IF str[i] = "[" THEN ParseElements(str, j, <<"[">>)
              ELSE ParseMembers(str, j, <<"{">>)
              : j \in {SkipWs(str, i + 1)} } : TRUE
    ELSE CHOOSE parsed \in
            { IF n = 0 THEN NoParse ELSE Parsed(n, <<Flat(SubSeq(str, i, n - 1))>>)
              : n \in {LiteralEnd(str, i)} } : TRUE

\* JSON.parse(potentialJson): the value, or the SyntaxError
JsonParseText(str) ==
    LET v == ParseValue(str, SkipWs(str, 1)) IN
    IF v.ok /\ SkipWs(str, v.next) > Len(str) THEN ExOk(v.canon) ELSE ExThrow(JsonSyntaxError)

NoJsonFoundError == MkError("Error", <<"no", "valid", "JSON", "found">>)

NoJsonEndError == MkError("Error", <<"no", "end", "of", "JSON", "found">>)

MalformedDataError(error) ==
    IF InstanceOfError(error)
    THEN MkError("Error", <<"malformed", "data:">> \o error.message)
    ELSE MkError("Error", <<"malformed", "data">>)

\* the try around JSON.parse
ParseCandidate(potentialJson) ==
    CHOOSE result \in
        { IF parsed.ok THEN parsed ELSE ExThrow(MalformedDataError(parsed.thrown))
          : parsed \in {JsonParseText(potentialJson)} } : TRUE

NoExtraction ==
    [searchText |-> <<>>, startIndex |-> -1, closed |-> FALSE, endIndex |-> -1,
     candidate |-> <<>>, parsed |-> FALSE, result |-> ExThrow(NoError)]

\* extractJsonFromText(text): its local variables when it ends, and what it
\* returns or throws
ExtractJsonFromText(t) ==
    CHOOSE ended \in
        { LET startIndex == StartIndex(jsonString)
          IN IF startIndex = -1
             THEN [NoExtraction EXCEPT !.searchText = jsonString,
                                       !.result = ExThrow(NoJsonFoundError)]
             ELSE LET closed == ScanEnd(jsonString, startIndex) # -1
                      endIndex == EndIndex(jsonString, startIndex)
                  IN IF endIndex = -1
                     THEN [NoExtraction EXCEPT !.searchText = jsonString,
                                               !.startIndex = startIndex,
                                               !.result = ExThrow(NoJsonEndError)]
                     ELSE CHOOSE parsed \in
                             { [searchText |-> jsonString, startIndex |-> startIndex,
                                closed |-> closed, endIndex |-> endIndex,
                                candidate |-> potentialJson, parsed |-> TRUE,
                                result |-> ParseCandidate(potentialJson)]
                               : potentialJson \in
                                     {Substring(jsonString, startIndex, endIndex + 1)} } : TRUE
          : jsonString \in {SearchText(t)} } : TRUE

\* the extractor is called with a text
InitExtract ==
    /\ FetchIdle
    /\ RelatedIdle
    /\ AiIdle
    /\ AppIdle
    /\ exPc = "called"
    /\ exText \in ExTexts
    /\ extraction = NoExtraction

\* extractJsonFromText runs to its end
ExtractJson ==
    /\ exPc = "called"
    /\ extraction' = ExtractJsonFromText(exText)
    /\ exPc' = "done"
    /\ UNCHANGED <<exText, fetchVars, relatedVars, aiVars, appVars>>

NextExtract == ExtractJson

SpecExtract == InitExtract /\ [][NextExtract]_vars

-----------------------------------------------------------------------------
(* Properties of extractJsonFromText                                       *)

ExDone == exPc = "done"

Openers == {"[", "{"}

Closers == {"]", "}"}

\* the place of the first opener of a text, from 1, or 0
FirstOpener(str) ==
    IF \E i \in DOMAIN str : str[i] \in Openers
    THEN CHOOSE i \in DOMAIN str :
             str[i] \in Openers /\ \A j \in 1..(i - 1) : str[j] \notin Openers
    ELSE 0

\* the number of backslashes right before place k
BackslashRun(str, k) ==
    Cardinality({j \in 1..(k - 1) : \A m \in j..(k - 1) : str[m] = "\\"})

\* place k lies in a double-quoted string that was opened at or after place from
InsideString(str, from, k) ==
    Cardinality({j \in from..(k - 1) :
                    str[j] = "\"" /\ BackslashRun(str, j) % 2 = 0}) % 2 = 1

\* the well-formed value that the opener at place i opens, if any
ValueAt(str, i) == ParseValue(str, i)

\* the value at place i holds a closer inside one of its strings
CloserInString(str, i) ==
    \E k \in i..(ValueAt(str, i).next - 1) : str[k] \in Closers /\ InsideString(str, i, k)

\* C15: the scan never ends at a closer that lies inside a double-quoted
\* string, and when the first opener of the search text opens a well-formed
\* value that holds `}` or `]` inside a string, the scan closes at the end of
\* that value and the whole value is returned.
C15_StringBracketsIgnored ==
    ExDone /\ extraction.startIndex # -1 =>
        LET str == extraction.searchText
            i == extraction.startIndex + 1
        IN /\ extraction.closed => ~InsideString(str, i, extraction.endIndex + 1)
           /\ ValueAt(str, i).ok /\ CloserInString(str, i) =>
                 /\ extraction.closed
                 /\ extraction.candidate = SubSeq(str, i, ValueAt(str, i).next - 1)
                 /\ extraction.result = ExOk(ValueAt(str, i).canon)

C15_Witness ==
    /\ ExDone
    /\ extraction.startIndex # -1
    /\ ValueAt(extraction.searchText, extraction.startIndex + 1).ok
    /\ CloserInString(extraction.searchText, extraction.startIndex + 1)
    /\ extraction.result.ok

FencesOf(str) == {i \in DOMAIN str : str[i] = Fence}

\* C16: for an input without a fenced block whose first opener opens a
\* well-formed value, the scan closes at the last character of that value, the
\* candidate is that value and the result is its parse, whatever follows it.
C16_FirstBalancedValueWins ==
    ExDone /\ Cardinality(FencesOf(Trim(exText))) < 2 =>
        LET str == Trim(exText)
            i == FirstOpener(str)
        IN i # 0 /\ ValueAt(str, i).ok =>
              /\ extraction.closed
              /\ extraction.endIndex = ValueAt(str, i).next - 2
              /\ extraction.candidate = SubSeq(str, i, ValueAt(str, i).next - 1)
              /\ extraction.result = ExOk(ValueAt(str, i).canon)

C16_Witness ==
    /\ ExDone
    /\ FencesOf(exText) = {}
    /\ FirstOpener(Trim(exText)) # 0
    /\ ValueAt(Trim(exText), FirstOpener(Trim(exText))).ok
    /\ \E k \in DOMAIN Trim(exText) :
          /\ k >= ValueAt(Trim(exText), FirstOpener(Trim(exText))).next
          /\ Trim(exText)[k] \in Closers
    /\ extraction.result.ok

\* the k-th fence of a text
NthFence(str, k) ==
    CHOOSE i \in FencesOf(str) : Cardinality({j \in FencesOf(str) : j < i}) = k - 1

\* what is in the k-th fenced block, the fences paired in order: without the
\* label and the white space around
BlockContent(str, k) ==
    LET open == NthFence(str, 2 * k - 1)
        close == NthFence(str, 2 * k)
        from == IF str[open + 1] = JsonLabel THEN open + 2 ELSE open + 1
    IN Trim(SubSeq(str, from, close - 1))

\* the fenced blocks of a text that are not empty
FullBlocks(str) ==
    {k \in 1..(Cardinality(FencesOf(str)) \div 2) : BlockContent(str, k) # <<>>}

\* C17 as stated: if the trimmed input holds a fenced block that is not empty,
\* the search text is the content of the first such block and the extraction
\* is that of the content alone.
C17_FirstNonEmptyFence ==
    ExDone /\ FullBlocks(Trim(exText)) # {} =>
        LET k == CHOOSE b \in FullBlocks(Trim(exText)) :
                     \A c \in FullBlocks(Trim(exText)) : b <= c
        IN /\ extraction.searchText = BlockContent(Trim(exText), k)
           /\ extraction = ExtractJsonFromText(BlockContent(Trim(exText), k))

\* C17: only the first fenced block of the trimmed input counts. If it is not
\* empty, the search text is its content and the extraction is that of the
\* content alone, whatever brackets stand before or after the block; if it is
\* empty, or there is no block, the search text is the whole trimmed input.
C17_FirstFenceOnly ==
    ExDone =>
        IF 1 \in FullBlocks(Trim(exText))
        THEN /\ extraction.searchText = BlockContent(Trim(exText), 1)
             /\ extraction = ExtractJsonFromText(BlockContent(Trim(exText), 1))
        ELSE extraction.searchText = Trim(exText)

C17_Witness ==
    /\ ExDone
    /\ 1 \in FullBlocks(Trim(exText))
    /\ \E j \in 1..(NthFence(Trim(exText), 1) - 1) : Trim(exText)[j] \in Openers
    /\ extraction.searchText = BlockContent(Trim(exText), 1)
    /\ extraction.result.ok

\* C18: when the search text holds neither `{` nor `[`, the no-JSON-found
\* error is raised and the JSON parser is not called.
C18_NoOpenerRaisesNoJson ==
    ExDone /\ FirstOpener(extraction.searchText) = 0 =>
        /\ extraction.result = ExThrow(NoJsonFoundError)
        /\ ~extraction.parsed

C18_Witness ==
    /\ ExDone
    /\ FirstOpener(exText) # 0
    /\ FirstOpener(extraction.searchText) = 0
    /\ \E i \in DOMAIN extraction.searchText : extraction.searchText[i] \in Closers
    /\ extraction.result.thrown = NoJsonFoundError

\* the last place of a closer in a text, from 0, or -1
LastCloser(str) ==
    IF \E i \in DOMAIN str : str[i] \in Closers
    THEN (CHOOSE i \in DOMAIN str :
              str[i] \in Closers /\ \A j \in DOMAIN str : j > i => str[j] \notin Closers) - 1
    ELSE -1

\* C19: when the scan reaches the end of the search text without closing, the
\* end index is the later of the last `}` and the last `]` of the search text.
C19_FallbackIsLaterCloser ==
    ExDone /\ extraction.startIndex # -1 /\ ~extraction.closed =>
        extraction.endIndex = LastCloser(extraction.searchText)

C19_Witness ==
    /\ ExDone
    /\ extraction.startIndex # -1
    /\ ~extraction.closed
    /\ \E i, j \in DOMAIN extraction.searchText :
          /\ extraction.searchText[i] = "]"
          /\ extraction.searchText[j] = "}"
          /\ i < j
          /\ extraction.endIndex = j - 1

\* C20 as stated: the candidate handed to the JSON parser is the search text
\* from the start index to the end index inclusive; it begins with the first
\* opener of the search text and ends with the character at the end index.
C20_CandidateIsInclusiveSlice ==
    ExDone /\ extraction.parsed =>
        LET str == extraction.searchText IN
        /\ extraction.candidate =
               SubSeq(str, extraction.startIndex + 1, extraction.endIndex + 1)
        /\ extraction.candidate # <<>>
        /\ Head(extraction.candidate) = str[FirstOpener(str)]
        /\ extraction.candidate[Len(extraction.candidate)] = str[extraction.endIndex + 1]

-----------------------------------------------------------------------------
(* The exported AI operations that use the extractor                       *)
(*                                                                         *)
(* A parsed value is the text ParseValue gives for it; <<>> stands for      *)
(* undefined.                                                              *)

\* the longest answer of the AI service, but for the samples
MaxAiTextLen == 3

AiOperations ==
    {"generateRelatedKeywords", "analyzeKeywordCompetition",
     "executePromptAsCompetitionAnalysis", "fetchRecommendedKeywords", "fetchCurrentWeather"}

\* the operations that take a keyword or a prompt
WithInput ==
    {"generateRelatedKeywords", "analyzeKeywordCompetition",
     "executePromptAsCompetitionAnalysis"}

\* typeof, with Array.isArray and null told apart
TypeOf(v) ==
    IF v = <<>> THEN "undefined"
    ELSE IF Head(v) = "\"" THEN "string"
    ELSE IF Head(v) = "-" \/ IsDigit(Head(v)) THEN "number"
    ELSE IF Head(v) \in {"true", "false"} THEN "boolean"
    ELSE IF Head(v) = "null" THEN "null"
    ELSE IF Head(v) = "[" THEN "array"
    ELSE "object"

\* !!v
Truthy(v) ==
    CASE TypeOf(v) \in {"undefined", "null"} -> FALSE
      [] TypeOf(v) = "string" -> Len(v) > 2
      [] TypeOf(v) = "number" -> v # <<"0">>
      [] TypeOf(v) = "boolean" -> v = <<"true">>
      [] OTHER -> TRUE

\* the member named key among the members that start at place i of an object;
\* of two members of one name the later one
RECURSIVE FindMember(_, _, _)
FindMember(str, i, key) ==
    CHOOSE found \in
        { LET k == StringEnd(str, i + 1)
          IN CHOOSE member \in
                { IF later # <<>> THEN later
                  ELSE IF Flat(Unescape(str, i + 1, k)) = key THEN val.canon
                  ELSE <<>>
                  : later \in { IF str[val.next] = ","
                                THEN FindMember(str, val.next + 1, key)
                                ELSE <<>> } } : TRUE
          : val \in {ParseValue(str, StringEnd(str, i + 1) + 2)} } : TRUE

\* v.key
Member(v, key) ==
    CHOOSE member \in
        { IF TypeOf(obj) = "object" /\ Len(obj) > 2 THEN FindMember(obj, 2, key) ELSE <<>>
          : obj \in {v} } : TRUE

\* the elements of an array from place i on
RECURSIVE ElementsFrom(_, _)
ElementsFrom(str, i) ==
    CHOOSE elements \in
        { IF str[val.next] = ","
          THEN <<val.canon>> \o ElementsFrom(str, val.next + 1)
          ELSE <<val.canon>>
          : val \in {ParseValue(str, i)} } : TRUE

Elements(v) ==
    CHOOSE elements \in
        { IF TypeOf(arr) = "array" /\ Len(arr) > 2 THEN ElementsFrom(arr, 2) ELSE <<>>
          : arr \in {v} } : TRUE

\* (x || '').replace(...) throws: x is truthy and no string
ReplaceFails(x) == Truthy(x) /\ TypeOf(x) # "string"

AnalysisFields ==
    {"title", "reason", "opportunity", "threat", "consumptionAndIssues", "conclusion"}

\* The check of the parsed value throws a TypeError.  The value is null, and
\* the check reads a property of it with no test before: the extractor can
\* return null, the candidate of the text ]null[ .  Or typeof null is 'object',
\* and the check of analyzeKeywordCompetition goes on to read analysis.title.
ShapeThrows(op, v) ==
    CASE op = "analyzeKeywordCompetition" ->
            \/ TypeOf(v) = "null"
            \/ /\ \A f \in {"opportunityScore", "searchVolumeEstimate", "competitionScore",
                              "documentCount"} : TypeOf(Member(v, f)) = "number"
               /\ TypeOf(Member(v, "competitionLevel")) = "string"
               /\ TypeOf(Member(v, "analysis")) = "null"
      [] op \in {"executePromptAsCompetitionAnalysis", "fetchCurrentWeather"} ->
            TypeOf(v) = "null"
      [] OTHER -> FALSE

\* the check of the parsed value each operation makes before it uses it
ValidShape(op, v) ==
    CASE op = "generateRelatedKeywords" ->
            /\ Truthy(v)
            /\ TypeOf(Member(v, "related_searches")) = "array"
            /\ TypeOf(Member(v, "people_also_ask")) = "array"
      [] op = "analyzeKeywordCompetition" ->
            /\ \A f \in {"opportunityScore", "searchVolumeEstimate", "competitionScore",
                          "documentCount"} : TypeOf(Member(v, f)) = "number"
            /\ TypeOf(Member(v, "competitionLevel")) = "string"
            /\ TypeOf(Member(v, "analysis")) \in {"object", "array"}
            /\ \A f \in AnalysisFields : TypeOf(Member(Member(v, "analysis"), f)) = "string"
            /\ Truthy(Member(v, "strategy")) =>
                  /\ TypeOf(Member(Member(v, "strategy"), "expandedKeywords")) = "array"
                  /\ TypeOf(Member(Member(v, "strategy"), "blogTopics")) = "array"
      [] op = "executePromptAsCompetitionAnalysis" ->
            /\ Truthy(Member(v, "keyword"))
            /\ Truthy(Member(v, "analysis"))
            /\ Truthy(Member(Member(v, "analysis"), "conclusion"))
      [] op = "fetchRecommendedKeywords" -> TypeOf(v) = "array"
      [] op = "fetchCurrentWeather" ->
            \A f \in {"temperature", "condition", "wind", "humidity"} : Truthy(Member(v, f))

ReplaceTypeError == MkError("TypeError", <<"replace", "is", "not", "a", "function">>)

\* String(x) of an object that cannot be converted
ToPrimitiveTypeError ==
    MkError("TypeError", <<"Cannot", "convert", "object", "to", "primitive", "value">>)

\* paa.question of an entry that is null
NullReadTypeError == MkError("TypeError", <<"Cannot", "read", "properties", "of", "null">>)

\* the first error of a list, or none
RECURSIVE FirstError(_)
FirstError(errors) ==
    IF errors = <<>> THEN NoError
    ELSE IF Head(errors) # NoError THEN Head(errors)
    ELSE FirstError(Tail(errors))

\* String(x) throws.  An object with a member toString has no method of that
\* name, no member being a function, and its valueOf, its own or the one it
\* inherits, gives no primitive; an array is joined, its elements converted
\* the same way, but for null.
RECURSIVE StringThrows(_)
StringThrows(x) ==
    CASE TypeOf(x) = "object" -> Member(x, "toString") # <<>>
      [] TypeOf(x) = "array" ->
            \E elements \in {Elements(x)} :
                \E i \in DOMAIN elements : StringThrows(elements[i])
      [] OTHER -> FALSE

\* String(x || '') throws
StringFails(x) == Truthy(x) /\ StringThrows(x)

\* the TypeError that the cleaning of a value of valid shape throws, or none:
\* the entries of people_also_ask come first, then those of related_searches
CleaningError(op, v) ==
    CASE op = "generateRelatedKeywords" ->
            FirstError(
                [i \in DOMAIN Elements(Member(v, "people_also_ask")) |->
                    LET paa == Elements(Member(v, "people_also_ask"))[i]
                    IN  IF TypeOf(paa) = "null" THEN NullReadTypeError
                        ELSE IF \E f \in {"question", "answer", "content_gap_analysis"} :
                                    ReplaceFails(Member(paa, f))
                        THEN ReplaceTypeError
                        ELSE NoError]
                \o [i \in DOMAIN Elements(Member(v, "related_searches")) |->
                       IF ReplaceFails(Elements(Member(v, "related_searches"))[i])
                       THEN ReplaceTypeError ELSE NoError])
      [] op = "executePromptAsCompetitionAnalysis" ->
            IF \/ StringFails(Member(v, "keyword"))
               \/ \E analysis \in {Member(v, "analysis")} :
                      \E f \in AnalysisFields : StringFails(Member(analysis, f))
            THEN ToPrimitiveTypeError ELSE NoError
      [] op = "fetchRecommendedKeywords" ->
            IF \E i \in DOMAIN Elements(v) :
                  \E f \in {"keyword", "reason", "title", "thumbnailCopy", "strategy"} :
                      ReplaceFails(Member(Elements(v)[i], f))
            THEN ReplaceTypeError ELSE NoError
      [] OTHER -> NoError

\* the error thrown when the shape is not valid
ShapeError(op) ==
    CASE op = "generateRelatedKeywords" ->
            MkError("Error", <<"API", "response", "has", "unexpected", "format">>)
      [] op \in {"analyzeKeywordCompetition", "executePromptAsCompetitionAnalysis"} ->
            MkError("Error", <<"invalid", "response", "format", "from", "AI">>)
      [] op = "fetchRecommendedKeywords" ->
            MkError("Error", <<"AI", "response", "is", "not", "an", "array">>)
      [] op = "fetchCurrentWeather" ->
            MkError("Error", <<"AI", "response", "is", "not", "weather", "data">>)

\* text.trim() of a response without text
NoTextTypeError == MkError("TypeError", <<"Cannot", "read", "properties", "of", "undefined">>)

EmptyInputError == MkError("Error", <<"input", "is", "empty">>)

\* how the message of a failed call to the AI service starts, per operation
ServicePrefix(op) ==
    CASE op = "generateRelatedKeywords" ->
            <<"failed", "to", "get", "search", "results", "from", "AI">>
      [] op = "analyzeKeywordCompetition" ->
            <<"competition", "analysis", "failed", "to", "communicate", "with", "AI">>
      [] op = "executePromptAsCompetitionAnalysis" ->
            <<"prompt", "execution", "failed", "to", "communicate", "with", "AI">>
      [] op = "fetchRecommendedKeywords" ->
            <<"strategy", "keywords", "failed", "to", "communicate", "with", "AI">>
      [] op = "fetchCurrentWeather" ->
            <<"failed", "to", "get", "weather">>

\* the malformed-AI-response error
MalformedAiError == MkError("Error", <<"AI", "returned", "abnormal", "data">>)

UnknownAiError(op) == MkError("Error", <<op, "unknown", "error">>)

\* the catch block of each operation
AiCatch(op, error) ==
    IF op \in {"generateRelatedKeywords", "fetchCurrentWeather"}
    THEN IF InstanceOfError(error)
         THEN MkError("Error", ServicePrefix(op) \o <<"error:">> \o error.message)
         ELSE MkError("Error", ServicePrefix(op))
    ELSE IF InstanceOfError(error)
         THEN IF Includes(error.message, "JSON")
              THEN MalformedAiError
              ELSE MkError("Error", ServicePrefix(op) \o <<"error:">> \o error.message)
         ELSE UnknownAiError(op)

\* the text of a JSON string, a member, an object and an array
Str(x) == <<"\"", x, "\"">>

Pair(key, v) == Str(key) \o <<":">> \o v

RECURSIVE JoinComma(_)
JoinComma(list) ==
    IF list = <<>> THEN <<>>
    ELSE IF Len(list) = 1 THEN list[1]
    ELSE list[1] \o <<",">> \o JoinComma(Tail(list))

Obj(members) == <<"{">> \o JoinComma(members) \o <<"}">>

Arr(elements) == <<"[">> \o JoinComma(elements) \o <<"]">>

\* answers of the shape the prompts ask for
WeatherSample ==
    Obj(<<Pair("temperature", Str("1")), Pair("condition", Str("1")),
          Pair("wind", Str("1")), Pair("humidity", Str("1"))>>)

SerpSample ==
    Obj(<<Pair("related_searches", Arr(<<Str("a")>>)),
          Pair("people_also_ask", Arr(<<Obj(<<Pair("question", Str("q"))>>)>>))>>)

\* a related search that is a number
SerpNumberSample ==
    Obj(<<Pair("related_searches", Arr(<< <<"1">> >>)), Pair("people_also_ask", Arr(<<>>))>>)

CompetitionSample ==
    Obj(<<Pair("keyword", Str("k")),
          Pair("opportunityScore", <<"1">>), Pair("searchVolumeEstimate", <<"1">>),
          Pair("competitionScore", <<"1">>), Pair("competitionLevel", Str("low")),
          Pair("documentCount", <<"1">>),
          Pair("analysis",
               Obj(<<Pair("title", Str("t")), Pair("reason", Str("r")),
                     Pair("opportunity", Str("o")), Pair("threat", Str("h")),
                     Pair("consumptionAndIssues", Str("c")), Pair("conclusion", Str("e"))>>))>>)

RecommendedSample == Arr(<<Obj(<<Pair("keyword", Str("k")), Pair("reason", Str("r"))>>)>>)

\* related searches that are falsy, and no string
SerpFalsySample ==
    Obj(<<Pair("related_searches", Arr(<< <<"0">>, <<"false">>, <<"null">>, <<"\"", "\"">> >>)),
          Pair("people_also_ask", Arr(<<>>))>>)

\* a question that is null, before a related search that is true
SerpNullSample ==
    Obj(<<Pair("related_searches", Arr(<< <<"true">> >>)),
          Pair("people_also_ask", Arr(<< <<"null">> >>))>>)

\* an analysis that is null
CompetitionNullSample ==
    Obj(<<Pair("opportunityScore", <<"1">>), Pair("searchVolumeEstimate", <<"0">>),
          Pair("competitionScore", <<"-", "1", ".", "5">>), Pair("competitionLevel", Str("low")),
          Pair("documentCount", <<"1", "e", "3">>), Pair("analysis", <<"null">>)>>)

\* a temperature of 0
WeatherZeroSample ==
    Obj(<<Pair("temperature", <<"0", ".", "0">>), Pair("condition", Str("1")),
          Pair("wind", Str("1")), Pair("humidity", <<"true">>)>>)

\* a list with entries that are no objects
RecommendedNullSample == Arr(<< <<"null">>, <<"1">>, Arr(<<>>), Obj(<<Pair("keyword", <<"1">>)>>)>>)

\* a temperature too small for a double, which is 0
WeatherUnderflowSample ==
    Obj(<<Pair("temperature", <<"1", "e", "-", "4", "0", "0">>), Pair("condition", Str("1")),
          Pair("wind", <<"1", "e", "4", "0", "0">>), Pair("humidity", Str("1"))>>)

\* the answer to a prompt, and one whose keyword is an object with a member
\* toString, and one whose title is an array with such an object
PromptSample ==
    Obj(<<Pair("keyword", Str("k")),
          Pair("analysis", Obj(<<Pair("title", <<"1">>), Pair("conclusion", Str("e"))>>))>>)

PromptToStringSample ==
    Obj(<<Pair("keyword", Obj(<<Pair("toString", <<"1">>)>>)),
          Pair("analysis", Obj(<<Pair("conclusion", Str("e"))>>))>>)

PromptJoinSample ==
    Obj(<<Pair("keyword", Arr(<< <<"null">>, Obj(<<Pair("valueOf", <<"1">>)>>) >>)),
          Pair("analysis",
               Obj(<<Pair("title", Arr(<< Arr(<<Obj(<<Pair("toString", <<"null">>)>>)>>) >>)),
                     Pair("conclusion", Str("e"))>>))>>)

\* a text whose candidate is the literal null
NullSample == <<"]", "null", "[">>

\* the samples, bare and in a fenced block
AiSamples ==
    LET bare == {WeatherSample, SerpSample, SerpNumberSample, CompetitionSample,
                 RecommendedSample, SerpFalsySample, SerpNullSample, CompetitionNullSample,
                 WeatherZeroSample, RecommendedNullSample, WeatherUnderflowSample,
                 PromptSample, PromptToStringSample, PromptJoinSample, NullSample}
    IN bare \cup {<<Fence, JsonLabel, "\n">> \o t \o <<"\n", Fence>> : t \in bare}

\* response.text of the answers of the AI service
AiTexts == UNION {[1..n -> ExAlphabet] : n \in 0..MaxAiTextLen} \cup AiSamples

\* what ai.models.generateContent rejects with
ServiceRejections ==
    {MkError("Error", <<"API", "key", "not", "valid">>),
     MkError("Error", <<"The", "model", "is", "overloaded">>),
     MkError("Error", <<"Invalid", "JSON", "payload", "received">>),
     MkError("object", <<>>)}

AiReturns == [ok |-> TRUE, thrown |-> NoError]

AiRaises(error) == [ok |-> FALSE, thrown |-> error]

\* the try block after the await: extraction, check of the shape, cleaning;
\* where it failed and with which error, or origin "none"
AfterAnswer(op, t) ==
    CHOOSE cause \in
        { IF ~r.ok THEN [origin |-> "extractor", error |-> r.thrown]
          ELSE IF ShapeThrows(op, r.value)
          THEN [origin |-> "shape", error |-> NullReadTypeError]
          ELSE IF ~ValidShape(op, r.value)
          THEN [origin |-> "shape", error |-> ShapeError(op)]
          ELSE CHOOSE cleaned \in
                  { IF e # NoError THEN [origin |-> "cleaning", error |-> e]
                    ELSE [origin |-> "none", error |-> NoError]
                    : e \in {CleaningError(op, r.value)} } : TRUE
          : r \in {ExtractJsonFromText(t).result} } : TRUE

\* the operation is called; an empty keyword or prompt is thrown back at once
CallAi ==
    /\ aiPc = "idle"
    /\ \E op \in AiOperations, blank \in BOOLEAN :
          /\ blank => op \in WithInput
          /\ aiOp' = op
          /\ IF blank
             THEN /\ aiPc' = "raised"
                  /\ aiCause' = [origin |-> "input", error |-> EmptyInputError]
                  /\ aiOutcome' = AiRaises(EmptyInputError)
             ELSE /\ aiPc' = "calling"
                  /\ UNCHANGED <<aiCause, aiOutcome>>
    /\ UNCHANGED <<aiText, fetchVars, relatedVars, exVars, appVars>>

\* the call to the AI service fails
AiRejects ==
    /\ aiPc = "calling"
    /\ \E e \in ServiceRejections :
          /\ aiCause' = [origin |-> "service", error |-> e]
          /\ aiOutcome' = AiRaises(AiCatch(aiOp, e))
    /\ aiPc' = "raised"
    /\ UNCHANGED <<aiOp, aiText, fetchVars, relatedVars, exVars, appVars>>

\* the AI service answers with a text
AiAnswers ==
    /\ aiPc = "calling"
    /\ \E t \in AiTexts :
       \E cause \in {AfterAnswer(aiOp, t)} :
          /\ aiText' = t
          /\ aiCause' = cause
          /\ IF cause.origin = "none"
             THEN aiPc' = "returned" /\ aiOutcome' = AiReturns
             ELSE /\ aiPc' = "raised"
                  /\ aiOutcome' = AiRaises(AiCatch(aiOp, cause.error))
    /\ UNCHANGED <<aiOp, fetchVars, relatedVars, exVars, appVars>>

\* the AI service answers without text (response.text is undefined)
AiAnswersWithoutText ==
    /\ aiPc = "calling"
    /\ aiCause' = [origin |-> "notext", error |-> NoTextTypeError]
    /\ aiOutcome' = AiRaises(AiCatch(aiOp, NoTextTypeError))
    /\ aiPc' = "raised"
    /\ UNCHANGED <<aiOp, aiText, fetchVars, relatedVars, exVars, appVars>>

NextAi == CallAi \/ AiRejects \/ AiAnswers \/ AiAnswersWithoutText

SpecAi == Init /\ [][NextAi]_vars

\* the error has the class of a failed call to the AI service of the operation
IsServiceFailure(op, error) ==
    /\ Len(error.message) >= Len(ServicePrefix(op))
    /\ SubSeq(error.message, 1, Len(ServicePrefix(op))) = ServicePrefix(op)

\* C21 as stated: whatever the operation, a failure of the extractor reaches
\* the caller as the malformed-AI-response error, and not as the error the
\* operation raises for a failed call to the AI service.
C21_ExtractorFailureIsMalformedClass ==
    aiPc = "raised" /\ aiCause.origin = "extractor" =>
        /\ aiOutcome.thrown = MalformedAiError
        /\ ~IsServiceFailure(aiOp, aiOutcome.thrown)

-----------------------------------------------------------------------------
(* Termination of fetchWithProxies                                         *)

\* A timer that was set and not cleared fires: setTimeout runs the abort of
\* fetchWithTimeout and the resolve of the retry delay. When and whether the
\* relay answers, and when the body of its response ends, is up to the
\* network.
SpecFair == Spec /\ WF_vars(TimerFires) /\ WF_vars(DelayElapses)

\* C22 as stated: every call of fetchWithProxies that has issued a request
\* ends, by a return or by a throw.
C22_CallTerminates == (pc = "fetching") ~> Done

-----------------------------------------------------------------------------
(* The timer and the requests of fetchWithProxies                          *)

\* C23: the timer is pending exactly while fetch is awaited. Once the call is
\* past fetchWithTimeout, the timer has fired exactly if the last attempt
\* ended by the abort, and is cleared if the response or a network error came
\* first: no abort reaches a settled request, no timer outlives its attempt.
C23_TimerRacesResponse ==
    /\ timer = "pending" <=> pc = "fetching"
    /\ pc = "parsing" => timer = "cleared"
    /\ pc \in {"delay", "returned", "raised"} =>
          /\ timer \in {"fired", "cleared"}
          /\ timer = "fired" <=> last.kind = "timeout"

C23_Witness ==
    /\ pc = "delay"
    /\ timer = "cleared"
    /\ last.kind = "network"
    /\ "timeout" \in endKinds

\* C24: a request is issued only when the one before it has ended, and after
\* an attempt that threw is retried on the same strategy, only when the retry
\* delay is over; when no attempt runs, the last request issued has ended.
C24_OneRequestInFlight ==
    /\ InAttempt /\ Len(requests) > 1 =>
          /\ requests[Len(requests) - 1] = <<last.proxy, last.attempt>>
          /\ (last.kind \in ThrowKinds \cup {"interp"} /\ LastRequest[1] = last.proxy)
                => waited
    /\ InAttempt /\ Len(requests) = 1 => last = NoAttempt
    /\ pc \in {"delay", "returned", "raised"} =>
          LastRequest = <<last.proxy, last.attempt>>
    /\ \A i, j \in DOMAIN requests : requests[i] = requests[j] => i = j

C24_Witness ==
    /\ pc = "fetching"
    /\ waited
    /\ last.kind = "timeout"
    /\ LastRequest = <<last.proxy, 2>>
    /\ Len(requests) = 4

-----------------------------------------------------------------------------
(* The escape handling of the scan                                         *)

\* inString after the body of the loop has run for the indices up to k
InStringAfter(str, startIndex, k) ==
    ScanFrom(str, LoopStart, startIndex, k + 1, CharAt(str, startIndex),
             EndCharOf(CharAt(str, startIndex))).inString

\* the last index for which the body of the loop runs
LastScanned == IF extraction.closed THEN extraction.endIndex ELSE Len(extraction.searchText) - 1

\* the in-string state changes at index k
Toggles(k) ==
    InStringAfter(extraction.searchText, extraction.startIndex, k)
        # InStringAfter(extraction.searchText, extraction.startIndex, k - 1)

\* the indices from i on that the loop visits and leaves with inString true,
\* st being the variables before index i
RECURSIVE InStringIndices(_, _, _, _, _)
InStringIndices(str, st, i, startChar, endChar) ==
    IF i >= Len(str) THEN {}
    ELSE CHOOSE r \in
             { (IF after.inString THEN {i} ELSE {})
                  \cup (IF after.endIndex # -1 THEN {}
                        ELSE InStringIndices(str, after, i + 1, startChar, endChar))
               : after \in {ScanFrom(str, st, i, i + 1, startChar, endChar)} } : TRUE

\* C25: at every index the scan visits, the in-string state changes exactly if
\* the character is a double quote with an even number of backslashes right
\* before it (none included); no other character changes it.
C25_QuoteTogglesIffEvenBackslashes ==
    ExDone /\ extraction.startIndex # -1 =>
        \A inStringAt \in
               {InStringIndices(extraction.searchText, LoopStart, extraction.startIndex,
                                CharAt(extraction.searchText, extraction.startIndex),
                                EndCharOf(CharAt(extraction.searchText, extraction.startIndex)))} :
            \A k \in (extraction.startIndex + 1)..LastScanned :
                (k \in inStringAt) # (k - 1 \in inStringAt)
                    <=> /\ extraction.searchText[k + 1] = "\""
                        /\ BackslashRun(extraction.searchText, k + 1) % 2 = 0

C25_Witness ==
    /\ ExDone
    /\ extraction.startIndex # -1
    /\ \E k, j \in (extraction.startIndex + 1)..LastScanned :
          /\ extraction.searchText[k + 1] = "\""
          /\ BackslashRun(extraction.searchText, k + 1) = 2
          /\ Toggles(k)
          /\ extraction.searchText[j + 1] = "\""
          /\ BackslashRun(extraction.searchText, j + 1) = 1
          /\ ~Toggles(j)

-----------------------------------------------------------------------------
(* The list fetchRelatedKeywords returns                                   *)

\* the places <<sub-fetch, index>> of the suggestions of the fulfilled sub-fetches
SuggestionPlaces ==
    {x \in (DOMAIN settlements) \X (1..(MaxSuggestions + 1)) :
        /\ settlements[x[1]].status = "fulfilled"
        /\ x[2] <= Len(settlements[x[1]].value)}

\* place x is before place y in the order of the suffix list, then of the answer
Before(x, y) == x[1] < y[1] \/ (x[1] = y[1] /\ x[2] < y[2])

\* C26: the list a call for 'naver' returns is made of the keywords first met
\* when the answers of the fulfilled sub-fetches are read in the order of the
\* suffix list, tags stripped: the n-th entry is the n-th such keyword, with
\* id n, up to 20 of them, in whatever order the sub-fetches settled.
C26_ListInSuffixOrder ==
    (source = "naver" /\ relatedPc = "returned") =>
        LET stripped == {<<x, StripTags(settlements[x[1]].value[x[2]])>> :
                            x \in SuggestionPlaces}
            firsts == {s \in stripped :
                          \A t \in stripped : Before(t[1], s[1]) => t[2] # s[2]}
            ranked == {<<Cardinality({t \in firsts : Before(t[1], s[1])}) + 1, s[2]>> :
                          s \in firsts}
        IN /\ Len(relatedOutcome.list) = Min(20, Cardinality(firsts))
           /\ \A n \in DOMAIN relatedOutcome.list :
                 /\ relatedOutcome.list[n].id = n
                 /\ <<n, relatedOutcome.list[n].keyword>> \in ranked

C26_Witness ==
    /\ source = "naver"
    /\ relatedPc = "returned"
    /\ completion[1] = 3
    /\ completion[3] = 1
    /\ settlements[1] = Fulfilled(<< <<"a">>, <<"b">> >>)
    /\ settlements[3].status = "fulfilled"
    /\ Len(settlements[3].value) > 20
    /\ relatedOutcome.list[1].keyword = <<"a">>
    /\ Len(relatedOutcome.list) = 20

\* C27: a list the call returns has at most 20 entries, with the ids 1..n in
\* the order of the list; for 'naver' its keywords hold no tag and no two of
\* them are the same.
C27_ListBoundedWithIds ==
    relatedPc = "returned" =>
        /\ relatedOutcome.kind = "value"
        /\ Len(relatedOutcome.list) <= 20
        /\ \A n \in DOMAIN relatedOutcome.list : relatedOutcome.list[n].id = n
        /\ source = "naver" =>
              \A n, k \in DOMAIN relatedOutcome.list :
                  /\ StripTags(relatedOutcome.list[n].keyword) = relatedOutcome.list[n].keyword
                  /\ relatedOutcome.list[n].keyword = relatedOutcome.list[k].keyword => n = k

C27_Witness ==
    /\ relatedPc = "returned"
    /\ source = "naver"
    /\ settlements[1] = Fulfilled(<< <<"a">>, <<"b">> >>)
    /\ settlements[2] = Fulfilled(<< <<"<", "b", ">", "a">>, <<"a", "<">> >>)
    /\ settlements[3].status = "rejected"
    /\ Len(relatedOutcome.list) = 3
    /\ relatedOutcome.list[3] = [id |-> 3, keyword |-> <<"a", "<">>]

(***************************************************************************)
(* The page.  App (src/unnamed/part_007) holds the state, useSearch        *)
(* (part_008) the search, and FeatureSelector (part_001),                  *)
(* SearchEngineSelector, KeywordInputForm, ResultsTable (part_005) and     *)
(* PromptLauncher the controls.  A step is an event handler up to its      *)
(* await with the render that follows it, or the continuation of an await, *)
(* or the render React makes of the updates that wait, or the call of the  *)
(* effect of App that a render left waiting.  The effect belongs to a      *)
(* render that changed `results` or `feature` and reads the state of that  *)
(* render.  What is rendered in a step, and what waits, depends on the     *)
(* root: see Render and Resume.  A list of results is its length (0, or 1  *)
(* for any list with entries), the keys of its first entry and the call    *)
(* that returned it.  handleGenerateTopics and the help window, which      *)
(* touch none of the state below, are left out.                            *)
(***************************************************************************)

\* how many service calls the handlers make in a run of the model
MaxRequests == 2

\* the type Feature
Features == {"keywords", "related-keywords", "blogs", "competition", "sustainable-topics"}

\* what the input box can hold, and the keyword of a prompt result
AppKeywords == { <<>>, <<" ", "\t">>, <<"k1">> }

\* the keys of the entries search() stores for a feature.  fetchRelatedKeywords,
\* fetchNaverBlogPosts and generateRelatedKeywords build their entries key by
\* key; analyzeKeywordCompetition spreads the answer of the AI service into its
\* entry, which so has the keys validated and every other key of the answer.
ResultKeys(f, answerKeys) ==
    CASE f = "keywords" -> {"id", "keyword"}
      [] f = "blogs" -> {"id", "title", "url"}
      [] f = "related-keywords" -> {"related_searches", "people_also_ask"}
      [] OTHER -> {"keyword", "opportunityScore", "searchVolumeEstimate", "competitionScore",
                   "competitionLevel", "documentCount", "analysis", "keywordLength",
                   "wordCount"} \cup answerKeys

\* the keys an answer of the AI service can have besides the validated ones
AnswerKeys ==
    { {}, {"url"}, {"related_searches"}, {"related_searches", "people_also_ask"},
      {"url", "related_searches", "people_also_ask"} }

\* data.length > 0 && 'url' in data[0]
isBlogResults(data) == data.length > 0 /\ "url" \in data.keys

\* data.length > 0 && 'keyword' in data[0], with neither 'url' nor 'analysis'
isKeywordResults(data) ==
    /\ data.length > 0
    /\ "keyword" \in data.keys
    /\ "url" \notin data.keys
    /\ "analysis" \notin data.keys

\* data.length > 0 && 'related_searches' in data[0] && 'people_also_ask' in data[0]
isGoogleSerpResult(data) ==
    /\ data.length > 0
    /\ "related_searches" \in data.keys
    /\ "people_also_ask" \in data.keys

\* const anyLoading = loading || recoLoading || sustainableTopicsLoading || promptResultLoading
anyLoading(a) ==
    a.loading \/ a.recoLoading \/ a.sustainableTopicsLoading \/ a.promptResultLoading

\* disabled, of every button of FeatureSelector: its own anyLoading, of the
\* props loading (anyLoading of App) and recoLoading
SelectorDisabled(a) == anyLoading(a) \/ a.recoLoading

\* disabled, of the buttons of SearchEngineSelector, which App renders for
\* the feature 'keywords' only
SourceDisabled(a) == a.feature # "keywords" \/ anyLoading(a)

\* disabled, of the input of KeywordInputForm
InputDisabled(a) == anyLoading(a)

SubmitDisabled_BlankOnly(a) == Trim(a.keyword) = <<>>

\* disabled, of the submit button of KeywordInputForm
SubmitDisabled(a) == anyLoading(a) \/ Trim(a.keyword) = <<>>

\* App renders a ResultsTable, whose rows are buttons, under these conditions
KeywordButtonsShown(a) ==
    /\ ~a.promptResultLoading /\ a.promptResultError = Null /\ a.promptResult = Null
    /\ ~a.recoLoading /\ a.recoError = Null /\ a.recommendedKeywords = Null
    /\ ~a.loading /\ a.error = Null
    /\ ~a.sustainableTopicsLoading /\ a.sustainableTopicsError = Null
    /\ isGoogleSerpResult(a.results) \/ isKeywordResults(a.results)

\* the page as a piece of code finds it: the state it reads, the states it
\* has set so far, and the service calls
Page == [app |-> app, written |-> {}, inFlight |-> inFlight, issued |-> issued]

\* no state set
NoUpdates == [f \in {} |-> Null]

\* the state a with the updates u, a record of the states set
Over(a, u) == [f \in DOMAIN a |-> IF f \in DOMAIN u THEN u[f] ELSE a[f]]

\* the updates q followed by the updates u
Merge(q, u) == [f \in DOMAIN q \cup DOMAIN u |-> IF f \in DOMAIN u THEN u[f] ELSE q[f]]

\* the updates q without those of the states in fields
Minus(q, fields) == [f \in DOMAIN q \ fields |-> q[f]]

\* setter calls: the states of the record u are set
Set(w, u) == [w EXCEPT !.app = Over(@, u), !.written = @ \cup DOMAIN u]

\* the updates a piece of code has made
Updates(w) == [f \in w.written |-> w.app[f]]

\* the dependencies [results, feature] of the effect change with these
\* updates: every setResults call gives a new list
Reruns(fields) == "results" \in fields \/ "feature" \in fields

\* a handler calls a service operation and awaits it; f, k and r are the
\* feature, the keyword and the results it passes, where it passes any
Await(w, op, f, k, r) ==
    [w EXCEPT !.issued = @ + 1,
              !.inFlight = @ \cup {[id |-> w.issued + 1, op |-> op, feature |-> f,
                                    keyword |-> k, results |-> r]}]

\* search of useSearch, up to its await
search(w, k, f) ==
    IF Trim(k) = <<>>
    THEN Set(w, [error |-> "message"])
    ELSE Await(Set(w, [initialLoad |-> FALSE, loading |-> TRUE, error |-> Null,
                       results |-> NoResults]),
               "search", f, k, NoResults)

\* the state updates of handleFeatureSelect
handleFeatureSelect(w, newFeature) ==
    IF w.app.feature = newFeature THEN w
    ELSE Set(w, [results |-> NoResults,
                 error |-> Null,
                 initialLoad |-> TRUE,
                 keyword |-> <<>>,
                 mainKeyword |-> <<>>,
                 blogStrategy |-> NullReport,
                 strategyLoading |-> FALSE,
                 strategyError |-> Null,
                 serpStrategy |-> NullReport,
                 serpStrategyLoading |-> FALSE,
                 serpStrategyError |-> Null,
                 recommendedKeywords |-> Null,
                 recoLoading |-> FALSE,
                 recoError |-> Null,
                 sustainableTopics |-> Null,
                 sustainableTopicsError |-> Null,
                 sustainableTopicsLoading |-> FALSE,
                 promptResult |-> Null,
                 promptResultError |-> Null,
                 feature |-> newFeature])

\* handleSearch, up to its await or to its call of search
handleSearch(w, searchKeyword) ==
    IF Trim(searchKeyword) = <<>> THEN w
    ELSE LET w1 == Set(w, [initialLoad |-> FALSE,
                           mainKeyword |-> searchKeyword,
                           results |-> NoResults,
                           error |-> Null,
                           blogStrategy |-> NullReport,
                           strategyError |-> Null,
                           serpStrategy |-> NullReport,
                           serpStrategyError |-> Null,
                           recommendedKeywords |-> Null,
                           recoError |-> Null,
                           sustainableTopics |-> Null,
                           sustainableTopicsError |-> Null,
                           promptResult |-> Null,
                           promptResultError |-> Null])
         IN  IF w.app.feature = "sustainable-topics"
             THEN Await(Set(w1, [sustainableTopicsLoading |-> TRUE]),
                        "sustainable", Null, searchKeyword, NoResults)
             ELSE search(w1, searchKeyword, w.app.feature)

\* handleKeywordClick
handleKeywordClick(w, clickedKeyword) ==
    handleSearch(Set(w, [keyword |-> clickedKeyword]), clickedKeyword)

\* analyzeBlogStrategy of the render with the state c, up to its await
analyzeBlogStrategy(c, w) ==
    IF /\ ~c.loading
       /\ c.error = Null
       /\ c.feature = "blogs"
       /\ isBlogResults(c.results)
       /\ c.results.length > 0
    THEN Await(Set(w, [strategyLoading |-> TRUE, strategyError |-> Null]),
               "blogStrategy", Null, c.mainKeyword, c.results)
    ELSE w

\* analyzeSerpStrategy of the render with the state c, up to its await
analyzeSerpStrategy(c, w) ==
    IF /\ ~c.loading
       /\ c.error = Null
       /\ c.feature = "related-keywords"
       /\ isGoogleSerpResult(c.results)
       /\ c.results.length > 0
    THEN Await(Set(w, [serpStrategyLoading |-> TRUE, serpStrategyError |-> Null]),
               "serpStrategy", Null, c.mainKeyword, c.results)
    ELSE w

\* the effect of App, with the dependencies [results, feature], of the render
\* with the state c: it reads loading, error, feature, results and mainKeyword
\* as that render had them, whatever the state is when React calls it
Effect(c, w) ==
    LET w1 == IF c.feature = "blogs" THEN analyzeBlogStrategy(c, w)
              ELSE Set(w, [blogStrategy |-> NullReport, strategyError |-> Null])
    IN  IF c.feature = "related-keywords" /\ c.results.length > 0
                                          /\ isGoogleSerpResult(c.results)
        THEN analyzeSerpStrategy(c, w1)
        ELSE Set(w1, [serpStrategy |-> NullReport, serpStrategyError |-> Null])

\* handleFetchRecommendations, up to its await
handleFetchRecommendations(w) ==
    Await(Set(w, [recoLoading |-> TRUE,
                  recoError |-> Null,
                  recommendedKeywords |-> Null,
                  results |-> NoResults,
                  error |-> Null,
                  mainKeyword |-> <<>>,
                  blogStrategy |-> NullReport,
                  strategyError |-> Null,
                  serpStrategy |-> NullReport,
                  serpStrategyError |-> Null,
                  sustainableTopics |-> Null,
                  sustainableTopicsError |-> Null,
                  initialLoad |-> FALSE,
                  promptResult |-> Null,
                  promptResultError |-> Null]),
          "reco", Null, <<>>, NoResults)

\* handlePromptExecute, up to its await
handlePromptExecute(w) ==
    Await(Set(w, [results |-> NoResults,
                  recommendedKeywords |-> Null,
                  sustainableTopics |-> Null,
                  blogStrategy |-> NullReport,
                  serpStrategy |-> NullReport,
                  initialLoad |-> FALSE,
                  error |-> Null,
                  strategyError |-> Null,
                  serpStrategyError |-> Null,
                  recoError |-> Null,
                  sustainableTopicsError |-> Null,
                  promptResult |-> Null,
                  promptResultError |-> Null,
                  promptResultLoading |-> TRUE]),
          "prompt", Null, <<>>, NoResults)

\* handleReset
handleReset(w) ==
    Set(w, [results |-> NoResults,
            error |-> Null,
            initialLoad |-> TRUE,
            source |-> "google",
            feature |-> "competition",
            keyword |-> <<>>,
            mainKeyword |-> <<>>,
            blogStrategy |-> NullReport,
            strategyLoading |-> FALSE,
            strategyError |-> Null,
            serpStrategy |-> NullReport,
            serpStrategyLoading |-> FALSE,
            serpStrategyError |-> Null,
            recommendedKeywords |-> Null,
            recoLoading |-> FALSE,
            recoError |-> Null,
            sustainableTopics |-> Null,
            sustainableTopicsError |-> Null,
            sustainableTopicsLoading |-> FALSE,
            promptResult |-> Null,
            promptResultError |-> Null])

\* React calls the effect that is waiting, if one is, before it renders
\* again: the effect is that of the last render, whose state is app.  w has
\* the calls made so far in the step; what comes back has the updates of the
\* effect alone.
Flush(w) ==
    IF effectPending THEN Effect(app, [w EXCEPT !.written = {}])
    ELSE [w EXCEPT !.written = {}]

\* the page after a step: the state rendered, the updates waiting for a
\* render, the calls of w, and whether the effect of the render is waiting
Commit(rendered, waiting, w, pending) ==
    /\ w.issued <= MaxRequests
    /\ app' = rendered
    /\ queued' = waiting
    /\ inFlight' = w.inFlight
    /\ issued' = w.issued
    /\ effectPending' = pending
    /\ UNCHANGED root

\* The render after an event handler has run, w being the page with the
\* updates of the handler; modal: the handler has set the state of
\* PromptLauncher.  The handler has read the state of the last render, app.
\* Where the handler has set no state, or where no update waits and it has
\* set every state to the value it has, React renders nothing; setResults
\* gives a new list each time.
\* Otherwise React calls the waiting effect when it starts to render, so
\* that the updates of that effect come after those of the handler.
\*  - Legacy root: all of them are rendered now, and the effect of this
\*    render, when its dependencies changed, is left waiting.
\*  - Concurrent root: the updates of an event handler are rendered now,
\*    at the end of the event.  The updates made out of an event handler,
\*    by the continuation of an await or by the effect, wait for a render
\*    of their own (root "concurrent": a render for the one kind leaves the
\*    other kind out) or are rendered with them (root "unified": a render
\*    for the one kind takes the other kind too).  An update left out keeps
\*    its place before the later updates of the same state, so that the
\*    later one wins.  The effect of this render is called at its end, and
\*    its updates wait.
Render(w, modal) ==
    \E h \in {w} :
    IF /\ ~modal
       /\ h.issued = issued
       /\ \/ h.written = {}
          \/ DOMAIN queued = {} /\ h.app = app /\ "results" \notin h.written
    THEN UNCHANGED <<app, queued, inFlight, issued, effectPending, root>>
    ELSE
    \E e \in {Flush(h)} :
    \E rendered \in {CASE root = "legacy" -> Over(h.app, Updates(e))
                       [] root = "concurrent" -> h.app
                       [] OTHER -> Over(Over(Over(app, queued), Updates(h)), Updates(e))} :
    LET fields == IF root = "concurrent" THEN h.written
                  ELSE DOMAIN queued \cup h.written
        waiting == IF root = "concurrent"
                   THEN Merge(Minus(queued, h.written), Updates(e))
                   ELSE NoUpdates
    IN  IF root = "legacy"
        THEN Commit(rendered, waiting, e, Reruns(fields))
        ELSE IF Reruns(fields)
        THEN \E e2 \in {Effect(rendered, [e EXCEPT !.written = {}])} :
                Commit(rendered, Merge(waiting, Updates(e2)), e2, FALSE)
        ELSE Commit(rendered, waiting, e, FALSE)

\* The continuation of the await of the call r, which makes the updates try
\* (of the try or the catch block) and then finally (of the finally block),
\* each a record of the states set.  Under a concurrent root the updates
\* wait for a render.  Under a legacy root every update made out of an event
\* handler is rendered at once: the render after try leaves its effect
\* waiting, and the render after finally starts by calling it, with the
\* state of the render after try.
Resume(try, finally, r) ==
    IF root = "legacy"
    THEN \E e1 \in {Flush([Page EXCEPT !.inFlight = @ \ {r}])} :
         \E r1 \in {Over(Over(app, try), Updates(e1))} :
         \E e2 \in {IF Reruns(DOMAIN try) THEN Effect(r1, [e1 EXCEPT !.written = {}])
                    ELSE [e1 EXCEPT !.written = {}]} :
            Commit(Over(Over(r1, finally), Updates(e2)), NoUpdates, e2, FALSE)
    ELSE Commit(app, Merge(queued, Merge(try, finally)),
                [Page EXCEPT !.inFlight = @ \ {r}], effectPending)

\* the user types in the input box: setKeyword
TypeKeyword ==
    /\ ~InputDisabled(app)
    /\ \E k \in AppKeywords \ {app.keyword} : Render(Set(Page, [keyword |-> k]), FALSE)
    /\ UNCHANGED isModalOpen
    /\ UNCHANGED <<fetchVars, relatedVars, exVars, aiVars>>

\* the user submits the form: handleSubmit of KeywordInputForm
SubmitForm ==
    /\ ~SubmitDisabled(app)
    /\ Render(handleSearch(Page, app.keyword), FALSE)
    /\ UNCHANGED isModalOpen
    /\ UNCHANGED <<fetchVars, relatedVars, exVars, aiVars>>

\* the user clicks a keyword of the results table
ClickKeyword ==
    /\ KeywordButtonsShown(app)
    /\ \E k \in AppKeywords : Render(handleKeywordClick(Page, k), FALSE)
    /\ UNCHANGED isModalOpen
    /\ UNCHANGED <<fetchVars, relatedVars, exVars, aiVars>>

\* the user clicks the button of another feature
SelectFeature ==
    /\ ~SelectorDisabled(app)
    /\ \E f \in Features : Render(handleFeatureSelect(Page, f), FALSE)
    /\ UNCHANGED isModalOpen
    /\ UNCHANGED <<fetchVars, relatedVars, exVars, aiVars>>

\* the user clicks the button of the other search engine: setSource
SelectSource ==
    /\ ~SourceDisabled(app)
    /\ \E s \in Sources : Render(Set(Page, [source |-> s]), FALSE)
    /\ UNCHANGED isModalOpen
    /\ UNCHANGED <<fetchVars, relatedVars, exVars, aiVars>>

\* the user clicks the strategy keywords button
FetchRecommendations ==
    /\ ~SelectorDisabled(app)
    /\ Render(handleFetchRecommendations(Page), FALSE)
    /\ UNCHANGED isModalOpen
    /\ UNCHANGED <<fetchVars, relatedVars, exVars, aiVars>>

\* the user clicks the reset button
Reset ==
    /\ ~SelectorDisabled(app)
    /\ Render(handleReset(Page), FALSE)
    /\ UNCHANGED isModalOpen
    /\ UNCHANGED <<fetchVars, relatedVars, exVars, aiVars>>

\* handleOpenModal of PromptLauncher: its button has no disabled attribute
OpenModal ==
    /\ ~isModalOpen
    /\ isModalOpen' = TRUE
    /\ Render(Page, TRUE)
    /\ UNCHANGED <<fetchVars, relatedVars, exVars, aiVars>>

\* handleCloseModal of PromptLauncher
CloseModal ==
    /\ isModalOpen
    /\ isModalOpen' = FALSE
    /\ Render(Page, TRUE)
    /\ UNCHANGED <<fetchVars, relatedVars, exVars, aiVars>>

\* handleExecute of PromptLauncher, called by the execute button of the
\* window: onExecute, which is handlePromptExecute, then the window closes
ExecutePrompt ==
    /\ isModalOpen
    /\ Render(handlePromptExecute(Page), FALSE)
    /\ isModalOpen' = FALSE
    /\ UNCHANGED <<fetchVars, relatedVars, exVars, aiVars>>

\* React calls the effect that is waiting, no event having come before.
\* Its updates are rendered at once under a legacy root and wait for a
\* render under a concurrent one.
RunEffect ==
    /\ effectPending
    /\ \E e \in {Flush(Page)} :
          IF root = "legacy" THEN Commit(Over(app, Updates(e)), NoUpdates, e, FALSE)
          ELSE Commit(app, Merge(queued, Updates(e)), e, FALSE)
    /\ UNCHANGED isModalOpen
    /\ UNCHANGED <<fetchVars, relatedVars, exVars, aiVars>>

\* React renders the updates that wait, no event having come before: it
\* calls the waiting effect first, and leaves the effect of this render
\* waiting
RenderQueued ==
    /\ DOMAIN queued # {}
    /\ \E e \in {Flush(Page)} :
          Commit(Over(Over(app, queued), Updates(e)), NoUpdates, e, Reruns(DOMAIN queued))
    /\ UNCHANGED isModalOpen
    /\ UNCHANGED <<fetchVars, relatedVars, exVars, aiVars>>

\* search of useSearch, from its await on: setResults(data) of the try block
\* or setError of the catch block, then setLoading(false) of the finally
\* block.  fetchRelatedKeywords and fetchNaverBlogPosts can return an empty
\* list; for the other two features the list stored has one entry.
SearchSettles ==
    /\ \E r \in inFlight :
          /\ r.op = "search"
          /\ \E how \in {"data", "empty", "error"}, answerKeys \in AnswerKeys :
                /\ how = "empty" => r.feature \in {"keywords", "blogs"}
                /\ (how # "data" \/ r.feature # "competition") => answerKeys = {}
                /\ Resume(CASE how = "data" ->
                                  [results |-> [length |-> 1,
                                                keys |-> ResultKeys(r.feature, answerKeys),
                                                id |-> r.id]]
                             [] how = "empty" -> [results |-> NoResults]
                             [] OTHER -> [error |-> "message"],
                          [loading |-> FALSE], r)
    /\ UNCHANGED isModalOpen
    /\ UNCHANGED <<fetchVars, relatedVars, exVars, aiVars>>

\* handleSearch for 'sustainable-topics', from its await on
SustainableSettles ==
    /\ \E r \in inFlight :
          /\ r.op = "sustainable"
          /\ \E how \in {"data", "error"} :
                Resume(IF how = "data" THEN [sustainableTopics |-> "data"]
                       ELSE [sustainableTopicsError |-> "message"],
                       [sustainableTopicsLoading |-> FALSE], r)
    /\ UNCHANGED isModalOpen
    /\ UNCHANGED <<fetchVars, relatedVars, exVars, aiVars>>

\* handleFetchRecommendations, from its await on
RecoSettles ==
    /\ \E r \in inFlight :
          /\ r.op = "reco"
          /\ \E how \in {"data", "error"} :
                Resume(IF how = "data" THEN [recommendedKeywords |-> "data"]
                       ELSE [recoError |-> "message"],
                       [recoLoading |-> FALSE], r)
    /\ UNCHANGED isModalOpen
    /\ UNCHANGED <<fetchVars, relatedVars, exVars, aiVars>>

\* handlePromptExecute, from its await on; k is data.keyword
PromptSettles ==
    /\ \E r \in inFlight :
          /\ r.op = "prompt"
          /\ \E how \in {"data", "error"}, k \in AppKeywords :
                /\ how = "error" => k = <<>>
                /\ Resume(IF how = "data" THEN [promptResult |-> "data", keyword |-> k]
                          ELSE [promptResultError |-> "message"],
                          [promptResultLoading |-> FALSE], r)
    /\ UNCHANGED isModalOpen
    /\ UNCHANGED <<fetchVars, relatedVars, exVars, aiVars>>

\* analyzeBlogStrategy, from its await on
BlogStrategySettles ==
    /\ \E r \in inFlight :
          /\ r.op = "blogStrategy"
          /\ \E how \in {"data", "error"} :
                Resume(IF how = "data" THEN [blogStrategy |-> Report(r.keyword, r.results)]
                       ELSE [strategyError |-> "message"],
                       [strategyLoading |-> FALSE], r)
    /\ UNCHANGED isModalOpen
    /\ UNCHANGED <<fetchVars, relatedVars, exVars, aiVars>>

\* analyzeSerpStrategy, from its await on
SerpStrategySettles ==
    /\ \E r \in inFlight :
          /\ r.op = "serpStrategy"
          /\ \E how \in {"data", "error"} :
                Resume(IF how = "data" THEN [serpStrategy |-> Report(r.keyword, r.results)]
                       ELSE [serpStrategyError |-> "message"],
                       [serpStrategyLoading |-> FALSE], r)
    /\ UNCHANGED isModalOpen
    /\ UNCHANGED <<fetchVars, relatedVars, exVars, aiVars>>

NextApp ==
    \/ TypeKeyword
    \/ SubmitForm
    \/ ClickKeyword
    \/ SelectFeature
    \/ SelectSource
    \/ FetchRecommendations
    \/ Reset
    \/ OpenModal
    \/ CloseModal
    \/ ExecutePrompt
    \/ RunEffect
    \/ RenderQueued
    \/ SearchSettles
    \/ SustainableSettles
    \/ RecoSettles
    \/ PromptSettles
    \/ BlogStrategySettles
    \/ SerpStrategySettles

SpecApp == InitApp /\ [][NextApp]_vars

\* the calls of an operation that are in flight
InFlightOf(op) == {r \in inFlight : r.op = op}

\* the state of the page with every update made: what React shows once it
\* has rendered the updates that wait
Latest == Over(app, queued)

\* C28, as stated: on the page as rendered, loading is true exactly while a
\* call made by search() is in flight, no two such calls are in flight
\* together, and while anyLoading is true the input box is disabled and the
\* keyword buttons of the results are not shown.
C28_LoadingIffSearchInFlight ==
    /\ app.loading <=> InFlightOf("search") # {}
    /\ Cardinality(InFlightOf("search")) <= 1
    /\ anyLoading(app) => InputDisabled(app) /\ ~KeywordButtonsShown(app)

\* C28, amended: loading as last set is true exactly while a call made by
\* search() is in flight; loading as rendered is true while such a call is
\* in flight and, after the call has settled, until React has rendered
\* setLoading(false), or the error of a blank keyword apart, as long as
\* loading as last set; no two such calls are in flight together; and
\* while anyLoading is true on the page as rendered the input box is
\* disabled and the keyword buttons of the results are not shown.
C28_LoadingSetIffSearchInFlight ==
    /\ Latest.loading <=> InFlightOf("search") # {}
    /\ InFlightOf("search") # {} => app.loading
    /\ (app.loading /\ InFlightOf("search") = {}) =>
           "loading" \in DOMAIN queued /\ root # "legacy"
    /\ Cardinality(InFlightOf("search")) <= 1
    /\ anyLoading(app) => InputDisabled(app) /\ ~KeywordButtonsShown(app)

\* a search is in flight and loading is true, as set and as rendered, after
\* a prompt was executed from the window, which is never disabled:
\* handlePromptExecute has emptied the results and has not touched loading
C28_Witness ==
    /\ app.loading
    /\ Latest.loading
    /\ \E r \in InFlightOf("search") : r.id = 1
    /\ \E r \in InFlightOf("prompt") : r.id = 2
    /\ app.promptResultLoading
    /\ InputDisabled(app)

\* the main operations: keyword search, sustainable topics, strategy
\* keywords, prompt execution
MainOperations == {"search", "sustainable", "reco", "prompt"}

\* C29: at most one main operation is in flight, and each loading flag, as
\* last set, is true exactly while its own operation is in flight.
C29_OneMainOperation ==
    /\ Cardinality({r \in inFlight : r.op \in MainOperations}) <= 1
    /\ Latest.loading <=> InFlightOf("search") # {}
    /\ Latest.sustainableTopicsLoading <=> InFlightOf("sustainable") # {}
    /\ Latest.recoLoading <=> InFlightOf("reco") # {}
    /\ Latest.promptResultLoading <=> InFlightOf("prompt") # {}

\* C30: a blog strategy report in the state was made from the results and
\* the main keyword in the state.
C30_StrategyOfCurrentResults ==
    ~app.blogStrategy.null =>
        /\ app.blogStrategy.mainKeyword = app.mainKeyword
        /\ app.blogStrategy.results = app.results

====
